---- MODULE Spec2Model ----
(***************************************************************************)
(* A model of the KnowBe4 data archiver (archiver/main.go): the paginated  *)
(* collectors on top of callAPI, and the recipient fan-out                 *)
(* saveRecipientsToS3Async / saveRecipientsForSecTest.                     *)
(***************************************************************************)
EXTENDS Integers, Sequences, FiniteSets, TLC

VARIABLES
  remote,    \* the remote data: endpoint -> number of records on each page
  col,       \* per goroutine: the locals of the getAll... loop it is running
  reqs,      \* the requests client.Do has sent, in order
  s3,        \* the bucket: key -> stored bytes
  secTests,  \* the secTests argument of saveRecipientsToS3Async
  wk,        \* per test index: the goroutine running saveRecipientsForSecTest
  dpc,       \* position of the goroutine running saveRecipientsToS3Async
  errCount, stIndex, stCount, allDone, lastErr, i,  \* its locals
  wg,        \* the WaitGroup declared by each iteration of the outer loop
  c,         \* the unbuffered channel: "open" or "closed"
  batch,     \* number of the current iteration of the outer loop
  recvLog,   \* the messages received from c, in order
  ret,       \* the value saveRecipientsToS3Async returned
  logged,    \* the counts of its final log line
  hpc,       \* position of the goroutine running handler
  config,    \* the LambdaConfig handler was called with
  hret,      \* the value handler returned
  run,       \* number of the current invocation of handler
  prev,      \* the bucket and the outcome at the end of the previous invocation
  arg, res, op  \* a function called on its own: argument, result, its name

vars == <<remote, col, reqs, s3, secTests, wk, dpc, errCount, stIndex, stCount,
          allDone, lastErr, i, wg, c, batch, recvLog, ret, logged,
          hpc, config, hret, run, prev, arg, res, op>>

handlerVars == <<hpc, config, hret, run, prev>>

pureVars == <<arg, res, op>>

colVars   == <<remote, col, reqs>>
asyncVars == <<s3, secTests, wk, dpc, errCount, stIndex, stCount, allDone,
               lastErr, i, wg, c, batch, recvLog, ret, logged>>

----------------------------------------------------------------------------
(* Program constants *)

countPerPage == 500

maxErrorsAllowed == 5

workingGroupCount == 5

campaignsURLPath == "v1/phishing/campaigns"

groupsURLPath == "v1/groups"

securityTestURLPath == "v1/phishing/security_tests"

recipientsURLPath == "v1/phishing/security_tests/%v/recipients"

s3RecipientsFilenamePrefix == "recipients/knowbe4_recipients_"

EnvAPIBaseURL == "API_BASE_URL"

EnvAPIAuthToken == "API_AUTH_TOKEN"

EnvAWSS3Bucket == "AWS_S3_BUCKET"

campaignsFilename == "campaigns/knowbe4_campaigns.jsonl"

groupsFilename == "groups/knowbe4_groups.jsonl"

phishingTestsFilename == "campaigns/pst/knowbe4_security_tests.jsonl"

----------------------------------------------------------------------------
(* Bounds of the model *)

\* pages the remote API serves per endpoint; the collectors' page counter is
\* capped at MaxPages
MaxPages == 3

\* the longest secTests list handed to saveRecipientsToS3Async
MaxTests == 6

\* the longest secTests list in the runs where every pipeline fails
MaxFailTests == 11

\* the longest list given to marshalJsonLines
MaxRows == 3

\* the most groups, and the most categories, of a security test
MaxNames == 2

\* the most security tests the remote holds in a run of handler
MaxHandlerTests == 2

\* the largest MaxFileCount of a run of handler
MaxCap == 3

----------------------------------------------------------------------------
(* Inputs *)

\* record counts a page may hold
PageSizes == {0, 1, countPerPage - 1, countPerPage}

\* status codes client.Do may hand to callAPI: net/http consumes the 1xx
\* responses itself, 101 excepted
StatusCodes == {101, 200, 204, 299, 300, 404, 500}

\* the security test ID of Test_getAllRecipientsForSecurityTest
secTestID == 111

CollectEndpoints ==
  { <<campaignsURLPath, 0>>, <<groupsURLPath, 0>>, <<securityTestURLPath, 0>>,
    <<recipientsURLPath, secTestID>> }

TransportFailure == [kind |-> "transport", code |-> 0, body |-> "none"]

\* what client.Do can come back with: a transport error, or a response with a
\* status code and a body that is the JSON array of the page or is not JSON
Responses ==
  {TransportFailure}
  \cup [kind : {"http"}, code : StatusCodes, body : {"array", "garbage"}]

----------------------------------------------------------------------------
(* Errors *)

Nil == [kind |-> "nil", code |-> 0, page |-> 0]

IsNil(e) == e.kind = "nil"

----------------------------------------------------------------------------
(* The remote data *)

\* the records of page p of endpoint ep, in the order the API returns them
Page(ep, p) ==
  [j \in 1 .. remote[ep][p] |-> <<ep[1], ep[2], p, j>>]

RECURSIVE ConcatPages(_, _)
\* pages 1..n of endpoint ep, concatenated in ascending page order
ConcatPages(ep, n) ==
  IF n = 0 THEN <<>> ELSE ConcatPages(ep, n - 1) \o Page(ep, n)

----------------------------------------------------------------------------
(* callAPI *)

\* resp.StatusCode >= 300
IsErrorStatus_gt(code) == code > 300

IsErrorStatus(code) == code >= 300

\* url := config.APIBaseURL + "/" + urlPath, the test ID being part of the
\* path of the recipients
APIURL(ep) == <<"config.APIBaseURL", "/", ep[1], ep[2]>>

\* what the verb %s writes for resp.Body, an io.ReadCloser that is neither a
\* Stringer nor an error: the fields of the reader, not what it would read
FormatReadCloser(body) == "&{%!s(*http.body=...) ...}"

\* callAPI: the error of one request for endpoint ep, client.Do coming back
\* with resp; Nil means the response itself is returned to the caller, and
\* text is what the message of a status error is made of
callAPI(ep, resp) ==
  IF resp.kind = "transport"
    THEN [kind |-> "transport", code |-> 0, page |-> 0]
  ELSE IF IsErrorStatus(resp.code)
    THEN [kind |-> "status", code |-> resp.code, page |-> 0,
          text |-> [url |-> APIURL(ep), code |-> resp.code,
                    body |-> FormatReadCloser(resp.body)]]
  ELSE Nil

\* get...Page: the records and error of one page request
getPage(ep, pageNum, resp) ==
  LET err == callAPI(ep, resp) IN
  IF ~IsNil(err) THEN [recs |-> <<>>, err |-> err, decoded |-> FALSE]
  ELSE IF resp.body # "array"
    THEN [recs |-> <<>>, decoded |-> TRUE,
          err |-> [kind |-> "decode", code |-> resp.code, page |-> 0]]
  ELSE [recs |-> Page(ep, pageNum), err |-> Nil, decoded |-> TRUE]

----------------------------------------------------------------------------
(* The getAll... loops *)

\* len(next) < countPerPage
IsShortPage_le(n) == n <= countPerPage

IsShortPage(n) == n < countPerPage

\* return nil, nil, err
RecordsOnError_partial(all) == all

RecordsOnError(all) == <<>>

\* allTests = append(allTests, nextTests...)
AppendPage_front(all, recs) == recs \o all

AppendPage(all, recs) == all \o recs

\* for i := 1; ; i++
FirstPage == 1

Idle ==
  [st |-> "idle", ep |-> <<"", 0>>, i |-> 0, all |-> <<>>, ret |-> <<>>,
   err |-> Nil, resp |-> TransportFailure, decoded |-> FALSE, n |-> 0]

\* entry of a getAll... function for endpoint ep
StartCollect_shared(ep) ==
  [Idle EXCEPT !.st = "running", !.i = FirstPage,
               !.ep = <<ep[1], IF ep[2] > 1 THEN 1 ELSE ep[2]>>]

StartCollect(ep) ==
  [Idle EXCEPT !.st = "running", !.ep = ep, !.i = FirstPage]

\* one iteration of the loop of a getAll... function, client.Do coming back
\* with resp
CollectIter(cs, resp) ==
  LET g == getPage(cs.ep, cs.i, resp) IN
  IF ~IsNil(g.err)
    THEN [cs EXCEPT !.st = "err", !.ret = RecordsOnError(cs.all),
                    !.err = [g.err EXCEPT !.page = cs.i], !.all = <<>>,
                    !.resp = resp, !.decoded = g.decoded, !.n = cs.n + 1]
  ELSE LET all2 == AppendPage(cs.all, g.recs) IN
    IF IsShortPage(Len(g.recs))
      THEN [cs EXCEPT !.st = "ok", !.ret = all2, !.all = <<>>,
                      !.resp = resp, !.decoded = g.decoded, !.n = cs.n + 1]
      ELSE [cs EXCEPT !.i = cs.i + 1, !.all = all2,
                      !.resp = resp, !.decoded = g.decoded, !.n = cs.n + 1]

\* the request one iteration sends: the page and per_page query parameters
Request(cs) == [ep |-> cs.ep, page |-> cs.i, per_page |-> countPerPage]

\* goroutine p runs one iteration of its getAll... loop
CollectStep(p, urlPath) ==
  /\ col[p].st = "running"
  /\ col[p].ep[1] = urlPath
  /\ col[p].i <= MaxPages
  /\ \E resp \in Responses :
       /\ col' = [col EXCEPT ![p] = CollectIter(col[p], resp)]
       /\ reqs' = Append(reqs, Request(col[p]))
  /\ UNCHANGED remote

getAllCampaigns == CollectStep(0, campaignsURLPath) /\ UNCHANGED <<asyncVars, handlerVars, pureVars>>

getAllGroups == CollectStep(0, groupsURLPath) /\ UNCHANGED <<asyncVars, handlerVars, pureVars>>

getAllSecurityTests ==
  CollectStep(0, securityTestURLPath) /\ UNCHANGED <<asyncVars, handlerVars, pureVars>>

getAllRecipientsForSecurityTest ==
  CollectStep(0, recipientsURLPath) /\ UNCHANGED <<asyncVars, handlerVars, pureVars>>

----------------------------------------------------------------------------
(* A collector called on its own *)

\* saveRecipientsToS3Async has not been called
DispatcherOff ==
  /\ secTests = <<>>
  /\ wk = <<>>
  /\ dpc = "off"
  /\ errCount = 0
  /\ stIndex = -1
  /\ stCount = 0
  /\ allDone = FALSE
  /\ lastErr = Nil
  /\ i = 0
  /\ wg = <<>>
  /\ c = "open"
  /\ batch = 0
  /\ recvLog = <<>>
  /\ ret = Nil
  /\ logged = <<>>

AsyncOff ==
  /\ s3 = << >>
  /\ DispatcherOff

NoConfig == [given |-> {}, MaxFileCount |-> 0]

HandlerOff ==
  /\ hpc = "off"
  /\ config = NoConfig
  /\ hret = Nil
  /\ run = 0
  /\ prev = <<>>

PureOff ==
  /\ arg = <<>>
  /\ res = <<>>
  /\ op = "off"

InitCollect ==
  /\ \E ep \in CollectEndpoints, sizes \in [1 .. MaxPages -> PageSizes] :
       /\ remote = [e \in {ep} |-> sizes]
       /\ col = [p \in {0} |-> StartCollect(ep)]
  /\ reqs = <<>>
  /\ AsyncOff
  /\ HandlerOff
  /\ PureOff

NextCollect ==
  \/ getAllCampaigns
  \/ getAllGroups
  \/ getAllSecurityTests
  \/ getAllRecipientsForSecurityTest

SpecCollect == InitCollect /\ [][NextCollect]_vars

----------------------------------------------------------------------------
(* marshalJsonLines and saveToS3 *)

\* json.Marshal(row): the JSON text of a row and the error. A row is a tuple
\* whose first element names its Go type; an int is written as its decimal
\* value, a struct as the text of its fields, and a channel has no JSON
jsonMarshal(row) ==
  IF row[1] = "chan"
    THEN [b |-> "", err |-> [kind |-> "json unsupported", code |-> 0, page |-> 0]]
  ELSE IF row[1] = "int"
    THEN [b |-> ToString(row[2]), err |-> Nil]
  ELSE [b |-> ToString(row), err |-> Nil]

\* append(b, '\n')
JsonLine_bare(b) == <<b>>

JsonLine(b) == <<b, "\n">>

\* list, ok := input.([]interface{})
IsInterfaceList_any(input) == TRUE

IsInterfaceList(input) == input.kind = "list"

\* marshalJsonLines: the bytes written to buf, one JsonLine per row in the
\* order of the list, and the error; the input is nil, a []interface{}
\* ("list") or a value of another type
marshalJsonLines(input) ==
  IF input.kind = "nil"
    THEN [b |-> <<>>, err |-> [kind |-> "marshal nil", code |-> 0, page |-> 0]]
  ELSE IF ~IsInterfaceList(input)
    THEN [b |-> <<>>, err |-> [kind |-> "marshal type", code |-> 0, page |-> 0]]
  ELSE IF \E n \in 1 .. Len(input.rows) : ~IsNil(jsonMarshal(input.rows[n]).err)
    THEN [b |-> <<>>,
          err |-> jsonMarshal(input.rows[
                    CHOOSE n \in 1 .. Len(input.rows) :
                      /\ ~IsNil(jsonMarshal(input.rows[n]).err)
                      /\ \A m \in 1 .. n - 1 :
                           IsNil(jsonMarshal(input.rows[m]).err)]).err]
  ELSE LET w == Len(JsonLine(""))
           lines == [n \in 1 .. Len(input.rows) |->
                       JsonLine(jsonMarshal(input.rows[n]).b)] IN
       [b |-> [m \in 1 .. w * Len(input.rows) |->
                 lines[((m - 1) \div w) + 1][((m - 1) % w) + 1]],
        err |-> Nil]

\* list := make([]interface{}, len(xs)); list[i] = xs[i]
InterfaceList(xs) == [kind |-> "list", rows |-> xs]

\* saveToS3: the bucket and the error after the call; uploadOK is the outcome
\* of uploader.Upload
saveToS3_truncate(data, fileName, uploadOK) ==
  LET m == marshalJsonLines(data) IN
  IF ~IsNil(m.err)
    THEN [s3 |-> s3, err |-> [kind |-> "marshal", code |-> 0, page |-> 0]]
  ELSE IF ~uploadOK
    THEN [s3 |-> (fileName :> <<>>) @@ s3,
          err |-> [kind |-> "upload", code |-> 0, page |-> 0]]
  ELSE [s3 |-> (fileName :> m.b) @@ s3, err |-> Nil]

saveToS3_append(data, fileName, uploadOK) ==
  LET m == marshalJsonLines(data) IN
  IF ~IsNil(m.err)
    THEN [s3 |-> s3, err |-> [kind |-> "marshal", code |-> 0, page |-> 0]]
  ELSE IF ~uploadOK
    THEN [s3 |-> s3, err |-> [kind |-> "upload", code |-> 0, page |-> 0]]
  ELSE [s3 |-> (fileName :> (IF fileName \in DOMAIN s3
                               THEN s3[fileName] \o m.b ELSE m.b)) @@ s3,
        err |-> Nil]

saveToS3_unchecked(data, fileName, uploadOK) ==
  LET m == marshalJsonLines(data) IN
  IF ~uploadOK
    THEN [s3 |-> s3, err |-> [kind |-> "upload", code |-> 0, page |-> 0]]
  ELSE [s3 |-> (fileName :> m.b) @@ s3, err |-> m.err]

saveToS3(data, fileName, uploadOK) ==
  LET m == marshalJsonLines(data) IN
  IF ~IsNil(m.err)
    THEN [s3 |-> s3, err |-> [kind |-> "marshal", code |-> 0, page |-> 0]]
  ELSE IF ~uploadOK
    THEN [s3 |-> s3, err |-> [kind |-> "upload", code |-> 0, page |-> 0]]
  ELSE [s3 |-> (fileName :> m.b) @@ s3, err |-> Nil]

\* fmt.Sprintf("%s%v.jsonl", s3RecipientsFilenamePrefix, secTestID)
RecipientsFilename_shared(id) == <<s3RecipientsFilenamePrefix, 0, ".jsonl">>

RecipientsFilename(id) == <<s3RecipientsFilenamePrefix, id, ".jsonl">>

\* the key of one of the three objects with a constant file name
FixedFilename(name) == <<name, 0, "">>

\* the text of a key as Upload receives it: the constant file name, or the
\* prefix, the decimal test ID and the extension
KeyText(key) ==
  IF key[3] = "" THEN key[1] ELSE key[1] \o ToString(key[2]) \o key[3]

----------------------------------------------------------------------------
(* saveRecipientsForSecTest: the goroutine of test index k *)

\* the PstID field of a security test record
PstID(test) == (test[3] - 1) * countPerPage + test[4]

\* responses of the API during the fan-out
AsyncResponses ==
  { TransportFailure,
    [kind |-> "http", code |-> 200, body |-> "array"],
    [kind |-> "http", code |-> 200, body |-> "garbage"],
    [kind |-> "http", code |-> 500, body |-> "array"] }

FailingResponses == {r \in AsyncResponses : r.kind # "http" \/ r.code # 200 \/ r.body # "array"}

NoTask == [pc |-> "idle", id |-> 0, batch |-> 0, msg |-> Nil, sent |-> 0,
           failed |-> FALSE]

\* stIndex += 1
NextIndex_skip(index) == index + 2

NextIndex(index) == index + 1

\* c <- err; return
NextAfterSend_fallthrough(msg) == IF IsNil(msg) THEN "deferred" ELSE "store"

NextAfterSend(msg) == "deferred"

\* getAllRecipientsForSecurityTest(secTestID, config), one page request at a
\* time, and what follows its return
FetchWith(k, Rs) ==
  /\ wk[k].pc = "fetch"
  /\ col[k].st = "running"
  /\ col[k].i <= MaxPages
  /\ \E resp \in Rs :
       LET cs == CollectIter(col[k], resp) IN
       /\ reqs' = Append(reqs, Request(col[k]))
       /\ IF cs.st = "err"
            THEN /\ col' = [col EXCEPT ![k] = Idle]
                 /\ wk' = [wk EXCEPT ![k].pc = "send", ![k].failed = TRUE,
                                     ![k].msg = [cs.err EXCEPT !.kind = "api"]]
            ELSE /\ col' = [col EXCEPT ![k] = cs]
                 /\ wk' = [wk EXCEPT ![k].pc =
                                       IF cs.st = "ok" THEN "store" ELSE "fetch"]
  /\ UNCHANGED <<handlerVars, pureVars, remote, s3, secTests, dpc, errCount, stIndex, stCount, allDone,
                 lastErr, i, wg, c, batch, recvLog, ret, logged>>

WorkerFetch(k) == FetchWith(k, AsyncResponses)

WorkerFetchFails(k) == FetchWith(k, FailingResponses)

\* saveToS3(list, config.AWSS3Bucket, filename)
WorkerStore(k) ==
  /\ wk[k].pc = "store"
  /\ \E uploadOK \in BOOLEAN :
       LET r == saveToS3(InterfaceList(col[k].ret),
                         RecipientsFilename(wk[k].id), uploadOK) IN
       /\ s3' = r.s3
       /\ wk' = [wk EXCEPT ![k].pc = "send", ![k].msg = r.err,
                           ![k].failed = @ \/ ~IsNil(r.err)]
  /\ col' = [col EXCEPT ![k] = Idle]
  /\ UNCHANGED <<handlerVars, pureVars, remote, reqs, secTests, dpc, errCount, stIndex, stCount,
                 allDone, lastErr, i, wg, c, batch, recvLog, ret, logged>>

\* defer wg.Done()
WorkerDone(k) ==
  /\ wk[k].pc = "deferred"
  /\ wk' = [wk EXCEPT ![k].pc = "exit"]
  /\ wg' = [wg EXCEPT ![wk[k].batch] = @ - 1]
  /\ UNCHANGED <<handlerVars, pureVars, remote, col, reqs, s3, secTests, dpc, errCount, stIndex,
                 stCount, allDone, lastErr, i, c, batch, recvLog, ret, logged>>

----------------------------------------------------------------------------
(* saveRecipientsToS3Async *)

\* i < workingGroupCount
InnerLoopContinues_le(n) == n <= workingGroupCount

InnerLoopContinues(n) == n < workingGroupCount

\* wg.Wait()
WaitGroupIdle_nowait(n) == TRUE

WaitGroupIdle(n) == n = 0

\* errCount >= maxErrorsAllowed
TooManyErrors_gt(n) == n > maxErrorsAllowed

TooManyErrors(n) == n >= maxErrorsAllowed

\* if newErr != nil { log.Print(newErr.Error()); errCount += 1 }
CountMessage_all(n, msg) == n + 1

CountMessage(n, msg) == IF IsNil(msg) THEN n ELSE n + 1

\* where the dispatcher goes after a message, n being the new value of i: the
\* if block on newErr leaves the loops alone
AfterMessage_halt(n, msg) ==
  IF ~IsNil(msg) THEN "close"
  ELSE IF InnerLoopContinues(n) THEN "inner" ELSE "wait"

AfterMessage(n, msg) == IF InnerLoopContinues(n) THEN "inner" ELSE "wait"

\* stIndex += 1; nextID := secTests[stIndex].PstID; wg.Add(1);
\* go saveRecipientsForSecTest(nextID, config, &wg, c)
LaunchNext ==
  /\ dpc = "inner"
  /\ NextIndex(stIndex) < stCount
  /\ stIndex' = NextIndex(stIndex)
  /\ LET k == stIndex' + 1
         nextID == PstID(secTests[k]) IN
       /\ wk' = [wk EXCEPT ![k] = [NoTask EXCEPT !.pc = "fetch", !.id = nextID,
                                                 !.batch = batch]]
       /\ col' = [col EXCEPT ![k] = StartCollect(<<recipientsURLPath, nextID>>)]
  /\ wg' = [wg EXCEPT ![batch] = @ + 1]
  /\ dpc' = "recv"
  /\ UNCHANGED <<handlerVars, pureVars, remote, reqs, s3, secTests, errCount, stCount, allDone,
                 lastErr, i, c, batch, recvLog, ret, logged>>

\* stIndex += 1; if stIndex >= stCount { allDone = true; break }
NoMoreTests ==
  /\ dpc = "inner"
  /\ NextIndex(stIndex) >= stCount
  /\ stIndex' = NextIndex(stIndex)
  /\ allDone' = TRUE
  /\ dpc' = "wait"
  /\ UNCHANGED <<handlerVars, pureVars, remote, col, reqs, s3, secTests, wk, errCount, stCount,
                 lastErr, i, wg, c, batch, recvLog, ret, logged>>

\* newErr := <-c, the rendezvous with the goroutine k blocked in c <- err or
\* c <- nil; then errCount += 1 on an error and i++
Receive(k) ==
  /\ dpc = "recv"
  /\ c = "open"
  /\ wk[k].pc = "send"
  /\ errCount' = CountMessage(errCount, wk[k].msg)
  /\ recvLog' = Append(recvLog, [from |-> k, failed |-> ~IsNil(wk[k].msg),
                                 batch |-> batch])
  /\ wk' = [wk EXCEPT ![k].pc = NextAfterSend(wk[k].msg), ![k].msg = Nil,
                      ![k].sent = @ + 1]
  /\ i' = i + 1
  /\ dpc' = AfterMessage(i + 1, wk[k].msg)
  /\ UNCHANGED <<handlerVars, pureVars, remote, col, reqs, s3, secTests, stIndex, stCount, allDone,
                 lastErr, wg, c, batch, ret, logged>>

\* wg.Wait(); the errCount check; if allDone { break }; the next iteration of
\* the outer loop declares a new WaitGroup
WaitDone ==
  /\ dpc = "wait"
  /\ WaitGroupIdle(wg[batch])
  /\ lastErr' = IF TooManyErrors(errCount)
                  THEN [kind |-> "too many errors", code |-> errCount, page |-> 0]
                  ELSE lastErr
  /\ IF allDone
       THEN dpc' = "close" /\ UNCHANGED <<i, batch>>
       ELSE dpc' = "inner" /\ i' = 0 /\ batch' = batch + 1
  /\ UNCHANGED <<handlerVars, pureVars, remote, col, reqs, s3, secTests, wk, errCount, stIndex,
                 stCount, allDone, wg, c, recvLog, ret, logged>>

\* log.Printf("saved %d test recipient files to S3 with %d errors",
\* stCount-errCount, errCount)
LoggedCounts_total(tests, errors) == <<tests, errors>>

LoggedCounts(tests, errors) == <<tests - errors, errors>>

\* close(c); log.Printf(...); return lastErr
CloseAndReturn ==
  /\ dpc = "close"
  /\ c' = "closed"
  /\ logged' = LoggedCounts(stCount, errCount)
  /\ ret' = lastErr
  /\ dpc' = "done"
  /\ UNCHANGED <<handlerVars, pureVars, remote, col, reqs, s3, secTests, wk, errCount, stIndex,
                 stCount, allDone, lastErr, i, wg, batch, recvLog>>

----------------------------------------------------------------------------
(* saveRecipientsToS3Async called with the first K security tests *)

\* number of recipients the remote holds for the test with the given PstID
RecipientCount(id) == IF id = 2 THEN countPerPage + 1 ELSE id % 3

\* the page sizes a well-behaved API serves for n records
PagesOf(n) ==
  [p \in 1 .. MaxPages |->
     IF n >= p * countPerPage THEN countPerPage
     ELSE IF n > (p - 1) * countPerPage THEN n - (p - 1) * countPerPage
     ELSE 0]

\* an object an earlier run stored from remote data that has changed since
StaleObject == marshalJsonLines(InterfaceList(<< <<"stale", 0, 0, 0>> >>)).b

\* the bucket when saveRecipientsToS3Async is entered: the three objects
\* handler has just stored and, if an earlier run left them (old), an object
\* for every test
BucketAtEntry(tests, old) ==
  LET one(path) == marshalJsonLines(InterfaceList(<< <<path, 0, 1, 1>> >>)).b IN
  [key \in {FixedFilename(campaignsFilename), FixedFilename(groupsFilename),
            FixedFilename(phishingTestsFilename)}
          \cup (IF old THEN {RecipientsFilename(PstID(tests[k])) :
                               k \in 1 .. Len(tests)}
                       ELSE {}) |->
     IF key = FixedFilename(campaignsFilename) THEN one(campaignsURLPath)
     ELSE IF key = FixedFilename(groupsFilename) THEN one(groupsURLPath)
     ELSE IF key = FixedFilename(phishingTestsFilename)
       THEN marshalJsonLines(InterfaceList(tests)).b
     ELSE StaleObject]

InitAsync(K) ==
  /\ secTests = [k \in 1 .. K |-> <<securityTestURLPath, 0, 1, k>>]
  /\ remote = [ep \in {<<recipientsURLPath, PstID(secTests[k])>> : k \in 1 .. K}
                 |-> PagesOf(RecipientCount(ep[2]))]
  /\ col = [p \in 0 .. K |-> Idle]
  /\ reqs = <<>>
  /\ \E old \in BOOLEAN : s3 = BucketAtEntry(secTests, old)
  /\ wk = [k \in 1 .. K |-> NoTask]
  /\ dpc = "inner"
  /\ errCount = 0
  /\ stIndex = -1
  /\ stCount = K
  /\ allDone = FALSE
  /\ lastErr = Nil
  /\ i = 0
  /\ wg = [b \in 0 .. K + 1 |-> 0]
  /\ c = "open"
  /\ batch = 0
  /\ recvLog = <<>>
  /\ ret = Nil
  /\ logged = <<>>
  /\ HandlerOff
  /\ PureOff

Init == \E K \in 0 .. MaxTests : InitAsync(K)

Next ==
  \/ LaunchNext
  \/ NoMoreTests
  \/ \E k \in DOMAIN wk : WorkerFetch(k)
  \/ \E k \in DOMAIN wk : WorkerStore(k)
  \/ \E k \in DOMAIN wk : Receive(k)
  \/ \E k \in DOMAIN wk : WorkerDone(k)
  \/ WaitDone
  \/ CloseAndReturn

Spec == Init /\ [][Next]_vars

\* the goroutine of saveRecipientsToS3Async keeps running; a receive is its
\* step, taken when a goroutine is blocked in its send
DispatcherStep ==
  \/ LaunchNext
  \/ NoMoreTests
  \/ \E k \in DOMAIN wk : Receive(k)
  \/ WaitDone
  \/ CloseAndReturn

\* the goroutine of test index k keeps running: its requests and its upload
\* return, and its deferred wg.Done runs
WorkerStep(k) ==
  /\ k \in DOMAIN wk
  /\ (WorkerFetch(k) \/ WorkerStore(k) \/ WorkerDone(k))

\* saveRecipientsToS3Async under a scheduler that lets every goroutine run
\* and an API and a store that answer every call
SpecLive ==
  /\ Init
  /\ [][Next]_vars
  /\ WF_vars(DispatcherStep)
  /\ \A k \in 1 .. MaxTests : WF_vars(WorkerStep(k))

\* the runs in which every request of every pipeline fails
InitAllFail == \E K \in 0 .. MaxFailTests : InitAsync(K)

NextAllFail ==
  \/ LaunchNext
  \/ NoMoreTests
  \/ \E k \in DOMAIN wk : WorkerFetchFails(k)
  \/ \E k \in DOMAIN wk : Receive(k)
  \/ \E k \in DOMAIN wk : WorkerDone(k)
  \/ WaitDone
  \/ CloseAndReturn

SpecAllFail == InitAllFail /\ [][NextAllFail]_vars

----------------------------------------------------------------------------
(* handler *)

\* the settings LambdaConfig.init requires, in the order it checks them
RequiredSettings == <<EnvAPIBaseURL, EnvAPIAuthToken, EnvAWSS3Bucket>>

\* getRequiredString: the entry is set, or the environment provides it
getRequiredString_lenient(envKey, given, env) == TRUE

getRequiredString(envKey, given, env) == envKey \in given \/ env[envKey] # ""

\* LambdaConfig.init: the config after the call and the error
configInit(cfg, env) ==
  IF \E n \in 1 .. Len(RequiredSettings) :
       ~getRequiredString(RequiredSettings[n], cfg.given, env)
    THEN [cfg |-> cfg,
          err |-> [kind |-> "required value missing", page |-> 0,
                   code |-> CHOOSE n \in 1 .. Len(RequiredSettings) :
                     /\ ~getRequiredString(RequiredSettings[n], cfg.given, env)
                     /\ \A m \in 1 .. n - 1 :
                          getRequiredString(RequiredSettings[m], cfg.given, env)]]
    ELSE [cfg |-> [cfg EXCEPT !.given =
                     @ \cup {RequiredSettings[n] :
                               n \in {m \in 1 .. Len(RequiredSettings) :
                                        env[RequiredSettings[m]] # ""}}],
          err |-> Nil]

\* the stages of handler: the endpoint each collects, the file it stores, the
\* text in front of the error handler returns when the collection or the
\* store of the stage fails, and the next stage
Stages ==
  [campaigns |-> [ep |-> <<campaignsURLPath, 0>>, file |-> campaignsFilename,
                  fetch |-> "error saving campaigns",
                  save |-> "error saving campaigns", next |-> "groups"],
   groups    |-> [ep |-> <<groupsURLPath, 0>>, file |-> groupsFilename,
                  fetch |-> "error saving groups",
                  save |-> "error saving groups", next |-> "tests"],
   tests     |-> [ep |-> <<securityTestURLPath, 0>>,
                  file |-> phishingTestsFilename,
                  fetch |-> "error getting security tests from api",
                  save |-> "error saving security test results to S3",
                  next |-> "async"]]

\* if err != nil { return ... }: where handler goes on an error of a stage
OnStageError_continue(next) == next

OnStageError(next) == "returned"

\* one page request of the getAll... call of a stage, and the return of
\* handler when it fails
HandlerFetch(stage) ==
  /\ hpc = stage
  /\ col[0].st = "running"
  /\ col[0].i <= MaxPages
  /\ \E resp \in AsyncResponses :
       LET cs == CollectIter(col[0], resp)
           to == OnStageError(Stages[stage].next) IN
       /\ reqs' = Append(reqs, Request(col[0]))
       /\ IF cs.st = "err"
            THEN /\ hret' = [cs.err EXCEPT !.kind = Stages[stage].fetch]
                 /\ hpc' = to
                 /\ col' = [col EXCEPT ![0] =
                              IF to \in DOMAIN Stages
                                THEN StartCollect(Stages[to].ep) ELSE Idle]
            ELSE /\ col' = [col EXCEPT ![0] = cs]
                 /\ UNCHANGED <<hret, hpc>>

\* the zero value of KnowBe4SecurityTest
ZeroTest == <<securityTestURLPath, 0, 1, 0>>

\* count := config.MaxFileCount; if count == 0 { count = len(stResults) };
\* stResults[:count]. The slice expression panics when count exceeds the
\* capacity of stResults; up to the capacity that append left it yields the
\* zeroed elements behind the length
SliceOutcomes(stResults, maxFileCount) ==
  LET count == IF maxFileCount = 0 THEN Len(stResults) ELSE maxFileCount IN
  IF count <= Len(stResults)
    THEN {[panic |-> FALSE, tests |-> SubSeq(stResults, 1, count)]}
  ELSE IF Len(stResults) = 0
    THEN {[panic |-> TRUE, tests |-> <<>>]}
  ELSE {[panic |-> TRUE, tests |-> <<>>],
        [panic |-> FALSE,
         tests |-> [k \in 1 .. count |->
                      IF k <= Len(stResults) THEN stResults[k] ELSE ZeroTest]]}

\* entry of saveRecipientsToS3Async(config, tests)
AsyncEntry(tests) ==
  /\ secTests' = tests
  /\ col' = [p \in 0 .. Len(tests) |-> Idle]
  /\ wk' = [k \in 1 .. Len(tests) |-> NoTask]
  /\ dpc' = "inner"
  /\ errCount' = 0
  /\ stIndex' = -1
  /\ stCount' = Len(tests)
  /\ allDone' = FALSE
  /\ lastErr' = Nil
  /\ i' = 0
  /\ wg' = [b \in 0 .. Len(tests) + 1 |-> 0]
  /\ c' = "open"
  /\ batch' = 0
  /\ recvLog' = <<>>
  /\ ret' = Nil
  /\ logged' = <<>>

\* the saveToS3 call of a stage whose collection has returned, and what
\* follows it up to the next request or the next call
HandlerSave(stage) ==
  /\ hpc = stage
  /\ col[0].st = "ok"
  /\ \E uploadOK \in BOOLEAN :
       LET r == saveToS3(InterfaceList(col[0].ret),
                         FixedFilename(Stages[stage].file), uploadOK)
           to == IF IsNil(r.err) THEN Stages[stage].next
                 ELSE OnStageError(Stages[stage].next) IN
       /\ s3' = r.s3
       /\ hret' = IF IsNil(r.err) THEN hret
                  ELSE [r.err EXCEPT !.kind = Stages[stage].save]
       /\ IF to = "async"
            THEN \E o \in SliceOutcomes(col[0].ret, config.MaxFileCount) :
                   IF o.panic
                     THEN /\ hpc' = "panic"
                          /\ col' = [col EXCEPT ![0] = Idle]
                          /\ UNCHANGED <<secTests, wk, dpc, errCount, stIndex,
                                         stCount, allDone, lastErr, i, wg, c,
                                         batch, recvLog, ret, logged>>
                     ELSE /\ hpc' = "async"
                          /\ AsyncEntry(o.tests)
            ELSE /\ hpc' = to
                 /\ col' = [col EXCEPT ![0] =
                              IF to \in DOMAIN Stages
                                THEN StartCollect(Stages[to].ep) ELSE Idle]
                 /\ UNCHANGED <<secTests, wk, dpc, errCount, stIndex, stCount,
                                allDone, lastErr, i, wg, c, batch, recvLog,
                                ret, logged>>

\* config.init() and the entry of getAndSaveCampaigns; env is what os.Getenv
\* answers
HandlerInit ==
  /\ hpc = "init"
  /\ \E env \in [{RequiredSettings[n] : n \in 1 .. Len(RequiredSettings)}
                   -> {"", "value"}] :
       LET r == configInit(config, env) IN
       IF ~IsNil(r.err)
         THEN /\ hret' = r.err
              /\ hpc' = "returned"
              /\ UNCHANGED <<config, col>>
         ELSE /\ config' = r.cfg
              /\ hpc' = "campaigns"
              /\ col' = [col EXCEPT ![0] = StartCollect(Stages.campaigns.ep)]
              /\ UNCHANGED hret
  /\ UNCHANGED <<remote, reqs, asyncVars, run, prev, pureVars>>

getAndSaveCampaignsFetch ==
  /\ HandlerFetch("campaigns")
  /\ UNCHANGED <<remote, asyncVars, config, run, prev, pureVars>>

getAndSaveCampaignsSave ==
  /\ HandlerSave("campaigns")
  /\ UNCHANGED <<remote, reqs, config, run, prev, pureVars>>

getAndSaveGroupsFetch ==
  /\ HandlerFetch("groups")
  /\ UNCHANGED <<remote, asyncVars, config, run, prev, pureVars>>

getAndSaveGroupsSave ==
  /\ HandlerSave("groups")
  /\ UNCHANGED <<remote, reqs, config, run, prev, pureVars>>

HandlerGetAllSecurityTests ==
  /\ HandlerFetch("tests")
  /\ UNCHANGED <<remote, asyncVars, config, run, prev, pureVars>>

saveTestsToS3 ==
  /\ HandlerSave("tests")
  /\ UNCHANGED <<remote, reqs, config, run, prev, pureVars>>

\* return saveRecipientsToS3Async(config, stResults[:count])
HandlerReturn ==
  /\ hpc = "async"
  /\ dpc = "done"
  /\ hret' = ret
  /\ hpc' = "returned"
  /\ UNCHANGED <<remote, col, reqs, asyncVars, config, run, prev, pureVars>>

\* numbers of campaigns and of groups the remote may hold
CampaignCounts == {1, countPerPage + 1}

GroupCounts == {0, 2}

\* the remote data of a run: nc campaigns, ng groups, nt security tests, and
\* the recipients of every test
RemoteData(nc, ng, nt) ==
  [ep \in {Stages.campaigns.ep, Stages.groups.ep, Stages.tests.ep}
          \cup {<<recipientsURLPath, t>> : t \in 0 .. nt} |->
     IF ep = Stages.campaigns.ep THEN PagesOf(nc)
     ELSE IF ep = Stages.groups.ep THEN PagesOf(ng)
     ELSE IF ep = Stages.tests.ep THEN PagesOf(nt)
     ELSE PagesOf(IF ep[2] = 0 THEN 0 ELSE RecipientCount(ep[2]))]

InitRun(given, cap, nc, ng, nt) ==
  /\ config = [given |-> given, MaxFileCount |-> cap]
  /\ remote = RemoteData(nc, ng, nt)
  /\ col = [p \in {0} |-> Idle]
  /\ reqs = <<>>
  /\ AsyncOff
  /\ hpc = "init"
  /\ hret = Nil
  /\ run = 1
  /\ prev = <<>>
  /\ PureOff

InitHandler ==
  \E given \in SUBSET {RequiredSettings[n] : n \in 1 .. Len(RequiredSettings)},
     cap \in 0 .. MaxCap, nc \in CampaignCounts, ng \in GroupCounts,
     nt \in 0 .. MaxHandlerTests :
    InitRun(given, cap, nc, ng, nt)

NextHandler ==
  \/ HandlerInit
  \/ getAndSaveCampaignsFetch
  \/ getAndSaveCampaignsSave
  \/ getAndSaveGroupsFetch
  \/ getAndSaveGroupsSave
  \/ HandlerGetAllSecurityTests
  \/ saveTestsToS3
  \/ LaunchNext
  \/ NoMoreTests
  \/ \E k \in DOMAIN wk : WorkerFetch(k)
  \/ \E k \in DOMAIN wk : WorkerStore(k)
  \/ \E k \in DOMAIN wk : Receive(k)
  \/ \E k \in DOMAIN wk : WorkerDone(k)
  \/ WaitDone
  \/ CloseAndReturn
  \/ HandlerReturn

SpecHandler == InitHandler /\ [][NextHandler]_vars

\* what decides the writes of a run: the error handler returned and, for each
\* goroutine of the fan-out, whether it ran and whether it failed
Outcome == [hret |-> hret, workers |-> [k \in DOMAIN wk |-> <<wk[k].pc, wk[k].failed>>]]

\* the next invocation of handler with the same config, against the same
\* remote data and the bucket the first one left
HandlerRerun ==
  /\ hpc = "returned"
  /\ run = 1
  /\ run' = run + 1
  /\ prev' = [s3 |-> s3, outcome |-> Outcome]
  /\ hpc' = "init"
  /\ hret' = Nil
  /\ reqs' = <<>>
  /\ col' = [p \in {0} |-> Idle]
  /\ secTests' = <<>>
  /\ wk' = <<>>
  /\ dpc' = "off"
  /\ errCount' = 0
  /\ stIndex' = -1
  /\ stCount' = 0
  /\ allDone' = FALSE
  /\ lastErr' = Nil
  /\ i' = 0
  /\ wg' = <<>>
  /\ c' = "open"
  /\ batch' = 0
  /\ recvLog' = <<>>
  /\ ret' = Nil
  /\ logged' = <<>>
  /\ UNCHANGED <<remote, s3, config, pureVars>>

InitRerun ==
  \E cap \in 0 .. MaxHandlerTests, nc \in CampaignCounts, ng \in GroupCounts :
    InitRun({RequiredSettings[n] : n \in 1 .. Len(RequiredSettings)},
            cap, nc, ng, MaxHandlerTests)

NextRerun ==
  \/ NextHandler
  \/ HandlerRerun

SpecRerun == InitRerun /\ [][NextRerun]_vars

----------------------------------------------------------------------------
(* Flattening *)

\* the sequences over S of at most n elements
SeqsUpTo(S, n) == UNION {[1 .. m -> S] : m \in 0 .. n}

\* the keys of float64 fields; json.Marshal fails on a value that is not a
\* number
FloatKeys == {"phish_prone_percentage", "last_phish_prone_percentage"}

NaN == "NaN"

\* ConvertToOtherType(input, &output): json.Marshal writes every field of the
\* input under its key, json.Unmarshal sets the fields of the output whose key
\* is in the text and leaves the others at their zero value. Every key the
\* input and the output types share has the same type in both
ConvertToOtherType_zero(input, zero) == [out |-> zero, err |-> Nil]

ConvertToOtherType(input, zero) ==
  IF \E k \in FloatKeys \cap DOMAIN input : input[k] = NaN
    THEN [out |-> zero,
          err |-> [kind |-> "failed to convert to apitype. marshal error",
                   code |-> 0, page |-> 0]]
    ELSE [out |-> [k \in DOMAIN zero |->
                     IF k \in DOMAIN input THEN input[k] ELSE zero[k]],
          err |-> Nil]

\* var flatTest KnowBe4FlatSecurityTest
ZeroFlatSecurityTest ==
  [campaign_id |-> 0, pst_id |-> 0, status |-> "", name |-> "",
   all_groups |-> "", phish_prone_percentage |-> "0", started_at |-> "null",
   duration |-> 0, all_categories |-> "", template_id |-> 0,
   template_name |-> "", landing_page_id |-> 0, landing_page_name |-> "",
   scheduled_count |-> 0, delivered_count |-> 0, opened_count |-> 0,
   clicked_count |-> 0, replied_count |-> 0, attachment_open_count |-> 0,
   macro_enabled_count |-> 0, data_entered_count |-> 0,
   vulnerable_plugin_count |-> 0, exploited_count |-> 0,
   reported_count |-> 0, bounced_count |-> 0]

\* var flatRecipient KnowBe4FlatRecipient
ZeroFlatRecipient ==
  [recipient_id |-> 0, pst_id |-> 0, user_id |-> 0,
   user_active_directory_guid |-> "null", user_first_name |-> "",
   user_last_name |-> "", user_email |-> "", template_id |-> 0,
   template_name |-> "", scheduled_at |-> "null", delivered_at |-> "null",
   opened_at |-> "null", clicked_at |-> "null", replied_at |-> "null",
   attachment_opened_at |-> "null", macro_enabled_at |-> "null",
   data_entered_at |-> "null", exploited_at |-> "null",
   reported_at |-> "null", bounced_at |-> "null", ip |-> "",
   ip_location |-> "", browser |-> "", browser_version |-> "", os |-> ""]
  @@ ("vulnerable-plugins_at" :> "null")

RECURSIVE flattenGroups(_)
\* flatGroups := ""; for i := range groups { flatGroups += groups[i].Name }
flattenGroups(groups) ==
  IF groups = <<>> THEN ""
  ELSE flattenGroups(SubSeq(groups, 1, Len(groups) - 1))
         \o groups[Len(groups)].name

RECURSIVE flattenCategories(_)
\* flatCategories := ""; for i := range categories { ... += categories[i].Name }
flattenCategories(categories) ==
  IF categories = <<>> THEN ""
  ELSE flattenCategories(SubSeq(categories, 1, Len(categories) - 1))
         \o categories[Len(categories)].name

\* flattenTest: the flat test and the error
flattenTest(test) ==
  LET cv == ConvertToOtherType(test, ZeroFlatSecurityTest) IN
  IF ~IsNil(cv.err) THEN [flat |-> cv.out, err |-> cv.err]
  ELSE [flat |-> [cv.out EXCEPT
                    !.all_groups = flattenGroups(test.groups),
                    !.all_categories = flattenCategories(test.categories),
                    !.template_id = test.template.id,
                    !.template_name = test.template.name,
                    !.landing_page_id = test["landing-page"].id,
                    !.landing_page_name = test["landing-page"].name],
        err |-> Nil]

\* flattenRecipient: the flat recipient and the error
flattenRecipient(recipient) ==
  LET cv == ConvertToOtherType(recipient, ZeroFlatRecipient) IN
  IF ~IsNil(cv.err) THEN [flat |-> cv.out, err |-> cv.err]
  ELSE [flat |-> [cv.out EXCEPT
                    !.user_id = recipient.user.id,
                    !.user_active_directory_guid =
                       recipient.user.active_directory_guid,
                    !.user_first_name = recipient.user.first_name,
                    !.user_last_name = recipient.user.last_name,
                    !.user_email = recipient.user.email,
                    !.template_id = recipient.template.id,
                    !.template_name = recipient.template.name],
        err |-> Nil]

\* flattenTests: the slice is made with the length of the input, element i
\* is set when test i is flattened, and the first error returns the slice as
\* it is
flattenTests_reversed(tests) ==
  IF \E n \in 1 .. Len(tests) : ~IsNil(flattenTest(tests[n]).err)
    THEN [flat |-> [n \in 1 .. Len(tests) |-> ZeroFlatSecurityTest],
          err |-> flattenTest(tests[CHOOSE n \in 1 .. Len(tests) :
                                     ~IsNil(flattenTest(tests[n]).err)]).err]
    ELSE [flat |-> [n \in 1 .. Len(tests) |->
                      flattenTest(tests[Len(tests) + 1 - n]).flat],
          err |-> Nil]

flattenTests(tests) ==
  IF \E n \in 1 .. Len(tests) : ~IsNil(flattenTest(tests[n]).err)
    THEN LET bad == CHOOSE n \in 1 .. Len(tests) :
                      /\ ~IsNil(flattenTest(tests[n]).err)
                      /\ \A m \in 1 .. n - 1 : IsNil(flattenTest(tests[m]).err)
         IN [flat |-> [n \in 1 .. Len(tests) |->
                         IF n < bad THEN flattenTest(tests[n]).flat
                         ELSE ZeroFlatSecurityTest],
             err |-> flattenTest(tests[bad]).err]
    ELSE [flat |-> [n \in 1 .. Len(tests) |-> flattenTest(tests[n]).flat],
          err |-> Nil]

\* flattenRecipients: the same loop over the recipients
flattenRecipients(recipients) ==
  IF \E n \in 1 .. Len(recipients) : ~IsNil(flattenRecipient(recipients[n]).err)
    THEN LET bad == CHOOSE n \in 1 .. Len(recipients) :
                      /\ ~IsNil(flattenRecipient(recipients[n]).err)
                      /\ \A m \in 1 .. n - 1 :
                           IsNil(flattenRecipient(recipients[m]).err)
         IN [flat |-> [n \in 1 .. Len(recipients) |->
                         IF n < bad THEN flattenRecipient(recipients[n]).flat
                         ELSE ZeroFlatRecipient],
             err |-> flattenRecipient(recipients[bad]).err]
    ELSE [flat |-> [n \in 1 .. Len(recipients) |->
                      flattenRecipient(recipients[n]).flat],
          err |-> Nil]

\* var flatCampaign KnowBe4FlatCampaign
ZeroFlatCampaign ==
  [campaign_id |-> 0, name |-> "", all_groups |-> "",
   last_phish_prone_percentage |-> "0", last_run |-> "null", status |-> "",
   hidden |-> FALSE, send_duration |-> "", track_duration |-> "",
   frequency |-> "", all_difficulty_filter |-> "", create_date |-> "null",
   psts_count |-> 0, all_psts |-> ""]

RECURSIVE joinGroupNames(_)
\* the Name values of the groups of a campaign, joined with ","
joinGroupNames(groups) ==
  IF groups = <<>> THEN ""
  ELSE IF Len(groups) = 1 THEN groups[1].name
  ELSE joinGroupNames(SubSeq(groups, 1, Len(groups) - 1)) \o ","
         \o groups[Len(groups)].name

\* one more value behind a list that is not empty
JoinNext_nosep(flat, value) == flat \o value

JoinNext(flat, value) == flat \o "," \o value

RECURSIVE flattenDifficultyFilter(_)
\* the decimal values of DifficultyFilter, joined with ","
flattenDifficultyFilter(filter) ==
  IF filter = <<>> THEN ""
  ELSE IF Len(filter) = 1 THEN ToString(filter[1])
  ELSE JoinNext(flattenDifficultyFilter(SubSeq(filter, 1, Len(filter) - 1)),
                ToString(filter[Len(filter)]))

\* the PstID values of Psts, joined with ","
flattenPsts(psts) ==
  flattenDifficultyFilter([n \in 1 .. Len(psts) |-> psts[n].pst_id])

\* flattenCampaign: the generic copy, then the three lists
flattenCampaign(campaign) ==
  LET cv == ConvertToOtherType(campaign, ZeroFlatCampaign) IN
  IF ~IsNil(cv.err) THEN [flat |-> cv.out, err |-> cv.err]
  ELSE [flat |-> [cv.out EXCEPT
                    !.all_groups = joinGroupNames(campaign.groups),
                    !.all_difficulty_filter =
                       flattenDifficultyFilter(campaign.difficulty_filter),
                    !.all_psts = flattenPsts(campaign.psts)],
        err |-> Nil]

\* flattenCampaigns: the loop of flattenTests over the campaigns
flattenCampaigns(campaigns) ==
  IF \E n \in 1 .. Len(campaigns) : ~IsNil(flattenCampaign(campaigns[n]).err)
    THEN LET bad == CHOOSE n \in 1 .. Len(campaigns) :
                      /\ ~IsNil(flattenCampaign(campaigns[n]).err)
                      /\ \A m \in 1 .. n - 1 :
                           IsNil(flattenCampaign(campaigns[m]).err)
         IN [flat |-> [n \in 1 .. Len(campaigns) |->
                         IF n < bad THEN flattenCampaign(campaigns[n]).flat
                         ELSE ZeroFlatCampaign],
             err |-> flattenCampaign(campaigns[bad]).err]
    ELSE [flat |-> [n \in 1 .. Len(campaigns) |->
                      flattenCampaign(campaigns[n]).flat],
          err |-> Nil]

\* getAllCampaigns of the version that returns []KnowBe4FlatCampaign: the
\* campaigns of the pages, in order, flattened
getAllCampaignsFlat(served) == flattenCampaigns(served)

----------------------------------------------------------------------------
(* The pure functions, applied to inputs *)

\* the fixtures of the tests
exampleSecurityTest ==
  [campaign_id |-> 3423, pst_id |-> 16142, status |-> "Closed",
   name |-> "Corporate Test",
   groups |-> <<[group_id |-> 16342, name |-> "Corporate Employees"],
                [group_id |-> 16343, name |-> "Volunteers"]>>,
   phish_prone_percentage |-> "0.5",
   started_at |-> "2019-04-02T15:02:38.000Z", duration |-> 1,
   categories |-> <<[category_id |-> 4237, name |-> "Current Events"],
                    [category_id |-> 4238, name |-> "Other"]>>,
   template |-> [id |-> 11428, name |-> "CNN Breaking News"],
   scheduled_count |-> 42, delivered_count |-> 4, opened_count |-> 24,
   clicked_count |-> 20, replied_count |-> 0, attachment_open_count |-> 3,
   macro_enabled_count |-> 0, data_entered_count |-> 0,
   vulnerable_plugin_count |-> 0, exploited_count |-> 2,
   reported_count |-> 0, bounced_count |-> 0]
  @@ ("landing-page" :> [id |-> 1842, name |-> "SEI Landing Page"])

exampleFlatSecurityTest ==
  [campaign_id |-> 3423, pst_id |-> 16142, status |-> "Closed",
   name |-> "Corporate Test",
   all_groups |-> "Corporate Employees,Volunteers",
   phish_prone_percentage |-> "0.5",
   started_at |-> "2019-04-02T15:02:38.000Z", duration |-> 1,
   all_categories |-> "Current Events,Other", template_id |-> 11428,
   template_name |-> "CNN Breaking News", landing_page_id |-> 1842,
   landing_page_name |-> "SEI Landing Page",
   scheduled_count |-> 42, delivered_count |-> 4, opened_count |-> 24,
   clicked_count |-> 20, replied_count |-> 0, attachment_open_count |-> 3,
   macro_enabled_count |-> 0, data_entered_count |-> 0,
   vulnerable_plugin_count |-> 0, exploited_count |-> 2,
   reported_count |-> 0, bounced_count |-> 0]

exampleRecipient ==
  [recipient_id |-> 3077742, pst_id |-> 14240,
   user |-> [id |-> 264215, active_directory_guid |-> "null",
             first_name |-> "Bob", last_name |-> "Ross",
             email |-> "bob.r@kb4-demo.com"],
   template |-> [id |-> 2, name |-> "Your Amazon Order"],
   scheduled_at |-> "2019-04-02T15:02:38.000Z",
   delivered_at |-> "2019-04-02T15:02:38.000Z",
   opened_at |-> "2019-04-02T15:02:38.000Z",
   clicked_at |-> "2019-04-02T15:02:38.000Z",
   replied_at |-> "2019-04-02T15:02:38.000Z",
   attachment_opened_at |-> "null", macro_enabled_at |-> "null",
   data_entered_at |-> "2019-04-02T15:02:38.000Z", exploited_at |-> "null",
   reported_at |-> "null", bounced_at |-> "null", ip |-> "XX.XX.XXX.XXX",
   ip_location |-> "St.Petersburg, FL", browser |-> "Chrome",
   browser_version |-> "48.0", os |-> "MacOSX"]
  @@ ("vulnerable-plugins_at" :> "null")

\* lists of at most MaxNames named sub-objects with the names of the fixture
NamedLists(idKey, names) ==
  {[n \in 1 .. Len(f) |-> (idKey :> n) @@ [name |-> f[n]]] :
     f \in SeqsUpTo(names, MaxNames)}

\* the security tests given to flattenTests
TestInputs ==
  {exampleSecurityTest} \cup
  {[exampleSecurityTest EXCEPT
      !.groups = gs, !.categories = cs, !.template = tp,
      !["landing-page"] = lp, !.phish_prone_percentage = pp] :
     gs \in NamedLists("group_id", {"Corporate Employees", "Volunteers"}),
     cs \in NamedLists("category_id", {"Current Events", "Other"}),
     tp \in {exampleSecurityTest.template, [id |-> 0, name |-> ""]},
     lp \in {exampleSecurityTest["landing-page"]},
     pp \in {exampleSecurityTest.phish_prone_percentage, NaN}}

\* the recipients given to flattenRecipients
RecipientInputs ==
  {[exampleRecipient EXCEPT !.user = us, !.template = tp] :
     us \in {exampleRecipient.user,
             [exampleRecipient.user EXCEPT
                !.active_directory_guid = "d1a3b7c0", !.first_name = ""]},
     tp \in {exampleRecipient.template, [id |-> 0, name |-> ""]}}

\* the first campaign of exampleCampaigns
exampleCampaign ==
  [campaign_id |-> 242333, name |-> "One Time Phishing Security Test",
   groups |-> <<[group_id |-> 0, name |-> "All Users"],
                [group_id |-> 1, name |-> "Contractors"]>>,
   last_phish_prone_percentage |-> "0.3",
   last_run |-> "2019-04-02T15:02:38.000Z", status |-> "Closed",
   hidden |-> FALSE, send_duration |-> "3 Business Days",
   track_duration |-> "3 Days", frequency |-> "One Time",
   difficulty_filter |-> <<1, 2, 3, 4, 5>>,
   create_date |-> "2019-04-02T15:02:38.000Z", psts_count |-> 2,
   psts |-> <<[pst_id |-> 1, status |-> "Closed",
               start_date |-> "2019-04-02T15:02:38.000Z",
               users_count |-> 123, phish_prone_percentage |-> "0.3"],
              [pst_id |-> 29, status |-> "Open",
               start_date |-> "2019-04-03T16:08:38.000Z",
               users_count |-> 2, phish_prone_percentage |-> "0.5"]>>]

\* the campaigns given to flattenCampaigns
CampaignInputs ==
  {[exampleCampaign EXCEPT
      !.groups = gs, !.difficulty_filter = df, !.psts = ps,
      !.last_phish_prone_percentage = pp] :
     gs \in NamedLists("group_id", {"All Users", "Contractors"}),
     df \in {<<>>, exampleCampaign.difficulty_filter,
             <<exampleCampaign.difficulty_filter[5]>>},
     ps \in SeqsUpTo({exampleCampaign.psts[n] : n \in 1 .. 2}, MaxNames),
     pp \in {exampleCampaign.last_phish_prone_percentage, NaN}}

\* the rows given to marshalJsonLines: ints, structs, and a channel, which
\* has no JSON
MarshalRows ==
  {<<"int", 1>>, <<"int", 2>>, <<"GroupSummary", 1, "name 1">>,
   <<"GroupSummary", 2, "name 2">>, <<"chan">>}

\* the inputs of marshalJsonLines: nil, a struct, a slice of structs, and
\* []interface{} lists of at most MaxRows rows
MarshalInputs ==
  {[kind |-> "nil", rows |-> <<>>],
   [kind |-> "struct", rows |-> << <<"KnowBe4Group", 0, "">> >>],
   [kind |-> "typed", rows |-> <<>>],
   [kind |-> "typed", rows |-> << <<"GroupSummary", 1, "name 1">> >>]}
  \cup {InterfaceList(xs) : xs \in SeqsUpTo(MarshalRows, MaxRows)}

PureInputs ==
  MarshalInputs
  \cup {[kind |-> "tests", rows |-> <<t>>] : t \in TestInputs}
  \cup {[kind |-> "tests", rows |-> <<t, exampleSecurityTest>>] :
          t \in TestInputs}
  \cup {[kind |-> "recipients", rows |-> rs] :
          rs \in SeqsUpTo(RecipientInputs, 1)}
  \cup {[kind |-> "recipients", rows |-> <<r, exampleRecipient>>] :
          r \in RecipientInputs}
  \cup {[kind |-> "campaigns", rows |-> <<cp>>] : cp \in CampaignInputs}
  \cup {[kind |-> "campaigns", rows |-> <<exampleCampaign, cp>>] :
          cp \in CampaignInputs}

MarshalJsonLines ==
  /\ op = "input"
  /\ arg.kind \in {"nil", "struct", "typed", "list"}
  /\ res' = marshalJsonLines(arg)
  /\ op' = "marshalJsonLines"
  /\ UNCHANGED <<colVars, asyncVars, handlerVars, arg>>

FlattenTests ==
  /\ op = "input"
  /\ arg.kind = "tests"
  /\ res' = flattenTests(arg.rows)
  /\ op' = "flattenTests"
  /\ UNCHANGED <<colVars, asyncVars, handlerVars, arg>>

FlattenRecipients ==
  /\ op = "input"
  /\ arg.kind = "recipients"
  /\ res' = flattenRecipients(arg.rows)
  /\ op' = "flattenRecipients"
  /\ UNCHANGED <<colVars, asyncVars, handlerVars, arg>>

GetAllCampaignsFlat ==
  /\ op = "input"
  /\ arg.kind = "campaigns"
  /\ res' = getAllCampaignsFlat(arg.rows)
  /\ op' = "getAllCampaigns"
  /\ UNCHANGED <<colVars, asyncVars, handlerVars, arg>>

\* saveToS3(arg, bucket, groupsFilename) on a bucket that holds or does not
\* hold an object under that key; res keeps the error
SaveToS3 ==
  /\ op = "input"
  /\ arg.kind \in {"nil", "struct", "typed", "list"}
  /\ \E uploadOK \in BOOLEAN :
       LET r == saveToS3(arg, FixedFilename(groupsFilename), uploadOK) IN
       /\ s3' = r.s3
       /\ res' = [b |-> <<>>, err |-> r.err]
  /\ op' = "saveToS3"
  /\ UNCHANGED <<colVars, secTests, wk, dpc, errCount, stIndex, stCount,
                 allDone, lastErr, i, wg, c, batch, recvLog, ret, logged,
                 handlerVars, arg>>

InitPure ==
  /\ remote = <<>>
  /\ col = <<>>
  /\ reqs = <<>>
  /\ s3 \in {<< >>, (FixedFilename(groupsFilename) :> StaleObject)}
  /\ DispatcherOff
  /\ HandlerOff
  /\ arg \in PureInputs
  /\ res = <<>>
  /\ op = "input"

NextPure ==
  \/ MarshalJsonLines
  \/ SaveToS3
  \/ FlattenTests
  \/ FlattenRecipients
  \/ GetAllCampaignsFlat

SpecPure == InitPure /\ [][NextPure]_vars

----------------------------------------------------------------------------
(* The version of handler whose collectors return flat records *)

s3DefaultFilename == "knowbe4_security_tests.json"

\* the error ConvertToOtherType returns
ConvertError ==
  [kind |-> "failed to convert to apitype", code |-> 0, page |-> 0]

\* the flat record flattenTest or flattenRecipient makes of a record of the
\* API; PstID is copied under its key
FlatRecord(rec) == Append(rec, "flat")

\* flattenTests and flattenRecipients over the records of a response;
\* convertOK is whether ConvertToOtherType returns nil for every record, and
\* no caller uses the slice that comes with an error
flattenAll(recs, convertOK) ==
  IF Len(recs) > 0 /\ ~convertOK
    THEN [flat |-> <<>>, err |-> ConvertError]
    ELSE [flat |-> [n \in 1 .. Len(recs) |-> FlatRecord(recs[n])],
          err |-> Nil]

\* getRecipientsPage: the page request, the decoding and flattenRecipients
getRecipientsPageFlat(ep, pageNum, resp, convertOK) ==
  LET g == getPage(ep, pageNum, resp)
      f == flattenAll(g.recs, convertOK) IN
  IF ~IsNil(g.err) THEN g
  ELSE IF ~IsNil(f.err)
    THEN [recs |-> <<>>, err |-> f.err, decoded |-> TRUE]
  ELSE [recs |-> f.flat, err |-> Nil, decoded |-> TRUE]

\* one iteration of the loop of getAllRecipientsForSecurityTest
getAllRecipientsFlatIter(cs, resp, convertOK) ==
  LET g == getRecipientsPageFlat(cs.ep, cs.i, resp, convertOK) IN
  IF ~IsNil(g.err)
    THEN [cs EXCEPT !.st = "err", !.ret = <<>>,
                    !.err = [g.err EXCEPT !.page = cs.i], !.all = <<>>,
                    !.resp = resp, !.decoded = g.decoded, !.n = cs.n + 1]
  ELSE LET all2 == cs.all \o g.recs IN
    IF Len(g.recs) < countPerPage
      THEN [cs EXCEPT !.st = "ok", !.ret = all2, !.all = <<>>,
                      !.resp = resp, !.decoded = g.decoded, !.n = cs.n + 1]
      ELSE [cs EXCEPT !.i = cs.i + 1, !.all = all2,
                      !.resp = resp, !.decoded = g.decoded, !.n = cs.n + 1]

\* one iteration of the loop of getAllSecurityTests and, when the loop
\* breaks, flattenTests(allTests)
getAllSecurityTestsFlatIter(cs, resp, convertOK) ==
  LET cs2 == CollectIter(cs, resp)
      f == flattenAll(cs2.ret, convertOK) IN
  IF cs2.st # "ok" THEN cs2
  ELSE IF ~IsNil(f.err)
    THEN [cs2 EXCEPT !.st = "err", !.ret = <<>>, !.err = f.err]
  ELSE [cs2 EXCEPT !.ret = f.flat]

\* json.Marshal(&slice): an array of the rows, null for a nil slice
jsonMarshalSlice(rows, isNil) ==
  IF isNil THEN <<"null">>
  ELSE <<"[">> \o [n \in 1 .. Len(rows) |-> ToString(rows[n])] \o <<"]">>

\* saveToS3(data, bucketName, fileName) of this version: the bytes are
\* uploaded as they are
saveBytesToS3(data, fileName, uploadOK) ==
  IF ~uploadOK
    THEN [s3 |-> s3, err |-> [kind |-> "upload", code |-> 0, page |-> 0]]
    ELSE [s3 |-> (fileName :> data) @@ s3, err |-> Nil]

\* fmt.Sprintf("%s%v.json", s3RecipientsFilenamePrefix, secTestID)
RecipientsFilenameFlat(id) == <<"knowbe4_recipients_", id, ".json">>

\* handler: one page request of getAllSecurityTests, and the return of
\* handler when getAllSecurityTests returns an error
FlatGetAllSecurityTests ==
  /\ hpc = "flat tests"
  /\ col[0].st = "running"
  /\ col[0].i <= MaxPages
  /\ \E resp \in AsyncResponses, convertOK \in BOOLEAN :
       LET cs == getAllSecurityTestsFlatIter(col[0], resp, convertOK) IN
       /\ reqs' = Append(reqs, Request(col[0]))
       /\ col' = [col EXCEPT ![0] = cs]
       /\ IF cs.st = "err"
            THEN /\ hret' = [kind |-> "error gettings security tests from api",
                             code |-> cs.err.code, page |-> cs.err.page]
                 /\ hpc' = "returned"
            ELSE UNCHANGED <<hret, hpc>>
  /\ UNCHANGED <<remote, asyncVars, config, run, prev, pureVars>>

\* handler: json.Marshal(&stResults), saveToS3 under config.AWSS3Filename,
\* left at its default, and the call saveRecipientsToS3Async(config,
\* stResults[:count]); flattenTests made stResults with its length as capacity
FlatSaveTests ==
  /\ hpc = "flat tests"
  /\ col[0].st = "ok"
  /\ \E uploadOK \in BOOLEAN :
       LET r == saveBytesToS3(jsonMarshalSlice(col[0].ret, FALSE),
                              FixedFilename(s3DefaultFilename), uploadOK)
           count == IF config.MaxFileCount = 0 THEN Len(col[0].ret)
                    ELSE config.MaxFileCount IN
       /\ s3' = r.s3
       /\ IF ~IsNil(r.err)
            THEN /\ hret' = [r.err EXCEPT
                               !.kind = "error saving security test results to S3"]
                 /\ hpc' = "returned"
                 /\ col' = [col EXCEPT ![0] = Idle]
                 /\ UNCHANGED <<secTests, wk, dpc, errCount, stIndex, stCount,
                                allDone, lastErr, i, wg, c, batch, recvLog,
                                ret, logged>>
          ELSE IF count > Len(col[0].ret)
            THEN /\ hpc' = "panic"
                 /\ col' = [col EXCEPT ![0] = Idle]
                 /\ UNCHANGED <<hret, secTests, wk, dpc, errCount, stIndex,
                                stCount, allDone, lastErr, i, wg, c, batch,
                                recvLog, ret, logged>>
          ELSE /\ hpc' = "async"
               /\ AsyncEntry(SubSeq(col[0].ret, 1, count))
               /\ UNCHANGED hret
  /\ UNCHANGED <<remote, reqs, config, run, prev, pureVars>>

\* saveRecipientsForSecTest: one page request of
\* getAllRecipientsForSecurityTest, and c <- err when it returns an error
FlatWorkerFetch(k) ==
  /\ wk[k].pc = "fetch"
  /\ col[k].st = "running"
  /\ col[k].i <= MaxPages
  /\ \E resp \in AsyncResponses, convertOK \in BOOLEAN :
       LET cs == getAllRecipientsFlatIter(col[k], resp, convertOK) IN
       /\ reqs' = Append(reqs, Request(col[k]))
       /\ col' = [col EXCEPT ![k] = cs]
       /\ wk' = IF cs.st = "err"
                  THEN [wk EXCEPT ![k].pc = "send", ![k].failed = TRUE,
                                  ![k].msg = [cs.err EXCEPT !.kind = "api"]]
                  ELSE [wk EXCEPT ![k].pc =
                                    IF cs.st = "ok" THEN "store" ELSE "fetch"]
  /\ UNCHANGED <<handlerVars, pureVars, remote, s3, secTests, dpc, errCount,
                 stIndex, stCount, allDone, lastErr, i, wg, c, batch, recvLog,
                 ret, logged>>

\* saveRecipientsForSecTest: json.Marshal(&recipients) and saveToS3; the
\* slice is nil when no page had a record
FlatWorkerStore(k) ==
  /\ wk[k].pc = "store"
  /\ \E uploadOK \in BOOLEAN :
       LET r == saveBytesToS3(jsonMarshalSlice(col[k].ret, col[k].ret = <<>>),
                              RecipientsFilenameFlat(wk[k].id), uploadOK) IN
       /\ s3' = r.s3
       /\ wk' = [wk EXCEPT ![k].pc = "send", ![k].msg = r.err,
                           ![k].failed = @ \/ ~IsNil(r.err)]
  /\ UNCHANGED <<handlerVars, pureVars, remote, col, reqs, secTests, dpc,
                 errCount, stIndex, stCount, allDone, lastErr, i, wg, c,
                 batch, recvLog, ret, logged>>

\* close(c); return lastErr
FlatCloseAndReturn ==
  /\ dpc = "close"
  /\ c' = "closed"
  /\ ret' = lastErr
  /\ dpc' = "done"
  /\ UNCHANGED <<handlerVars, pureVars, remote, col, reqs, s3, secTests, wk,
                 errCount, stIndex, stCount, allDone, lastErr, i, wg, batch,
                 recvLog, logged>>

\* handler after config.init() has returned nil, at the call of
\* getAllSecurityTests
InitFlat ==
  \E cap \in 0 .. 1, nt \in 0 .. MaxHandlerTests + 1 :
    /\ config = [given |-> {RequiredSettings[n] :
                              n \in 1 .. Len(RequiredSettings)},
                 MaxFileCount |-> cap]
    /\ remote = [ep \in {<<securityTestURLPath, 0>>}
                        \cup {<<recipientsURLPath, t>> : t \in 1 .. nt} |->
                   IF ep[1] = securityTestURLPath THEN PagesOf(nt)
                   ELSE PagesOf(RecipientCount(ep[2]))]
    /\ col = [p \in {0} |-> StartCollect(<<securityTestURLPath, 0>>)]
    /\ reqs = <<>>
    /\ AsyncOff
    /\ hpc = "flat tests"
    /\ hret = Nil
    /\ run = 1
    /\ prev = <<>>
    /\ PureOff

NextFlat ==
  \/ FlatGetAllSecurityTests
  \/ FlatSaveTests
  \/ LaunchNext
  \/ NoMoreTests
  \/ \E k \in DOMAIN wk : FlatWorkerFetch(k)
  \/ \E k \in DOMAIN wk : FlatWorkerStore(k)
  \/ \E k \in DOMAIN wk : Receive(k)
  \/ \E k \in DOMAIN wk : WorkerDone(k)
  \/ WaitDone
  \/ FlatCloseAndReturn
  \/ HandlerReturn

SpecFlat == InitFlat /\ [][NextFlat]_vars

----------------------------------------------------------------------------
(* Properties of the collectors, checked under SpecCollect *)

\* the first page of the endpoint that holds fewer than countPerPage records
FirstShort(ep) ==
  IF \E p \in 1 .. MaxPages : remote[ep][p] < countPerPage
    THEN CHOOSE p \in 1 .. MaxPages :
           /\ remote[ep][p] < countPerPage
           /\ \A q \in 1 .. p - 1 : remote[ep][q] >= countPerPage
    ELSE MaxPages + 1

\* C1: against N full pages followed by a short page, a collector requests
\* pages 1, 2, ..., N+1 in ascending order with per_page = 500 and nothing
\* beyond the short page, and returns the concatenation of pages 1..N+1; one
\* empty page gives an empty result after exactly one request.
C1_CollectorReturnsAllPages ==
  dpc = "off" =>
    LET cs == col[0]
        n  == FirstShort(cs.ep) IN
    /\ Len(reqs) <= n
    /\ \A k \in 1 .. Len(reqs) :
         reqs[k] = [ep |-> cs.ep, page |-> k, per_page |-> 500]
    /\ cs.st = "ok" =>
         /\ IsNil(cs.err)
         /\ Len(reqs) = n
         /\ cs.ret = ConcatPages(cs.ep, n)
         /\ (remote[cs.ep][1] = 0 => Len(reqs) = 1 /\ cs.ret = <<>>)

C1_Witness ==
  /\ dpc = "off"
  /\ col[0].st = "ok"
  /\ Len(reqs) = 3
  /\ Len(col[0].ret) = 2 * countPerPage + 1

\* C2: when the request for page k fails, the collector returns an error and
\* no records, and page k is the last page it has requested.
C2_ErrorReturnsNothing ==
  dpc = "off" =>
    LET cs == col[0] IN
    cs.st = "err" =>
      /\ ~IsNil(cs.err)
      /\ cs.ret = <<>>
      /\ Len(reqs) = cs.err.page
      /\ reqs[Len(reqs)].page = cs.err.page

C2_Witness ==
  /\ dpc = "off"
  /\ col[0].st = "err"
  /\ col[0].err.page = 2
  /\ col[0].err.kind = "decode"

\* C3 as stated: every response whose status is outside 200..299 is an error
\* of callAPI, and only 2xx responses reach the page decoder.
C3_OnlySuccessStatusDecoded ==
  dpc = "off" =>
    LET cs == col[0] IN
    (cs.n > 0 /\ cs.resp.kind = "http") =>
      /\ cs.resp.code \notin 200 .. 299 => cs.err.kind = "status"
      /\ cs.decoded => cs.resp.code \in 200 .. 299

\* C3: callAPI returns an error for a response exactly when its status code
\* is 300 or more; every response with a status below 300 reaches the page
\* decoder, a status below 200 included.
C3_ErrorIffStatusAtLeast300 ==
  dpc = "off" =>
    LET cs == col[0] IN
    (cs.n > 0 /\ cs.resp.kind = "http") =>
      /\ cs.err.kind = "status" <=> cs.resp.code >= 300
      /\ cs.decoded <=> cs.resp.code < 300

C3_Witness ==
  /\ dpc = "off"
  /\ col[0].n > 0
  /\ col[0].resp.kind = "http"
  /\ col[0].resp.code = 101
  /\ col[0].decoded
  /\ col[0].st = "ok"

----------------------------------------------------------------------------
(* Properties of the fan-out, checked under Spec *)

Launched(k) == wk[k].pc # "idle"

Alive(k) == wk[k].pc \notin {"idle", "exit"}

\* number of messages the dispatcher has received from goroutine k
Reported(k) == Cardinality({n \in 1 .. Len(recvLog) : recvLog[n].from = k})

\* number of failure messages received in the batches before batch b
FailuresBefore(b) ==
  Cardinality({n \in 1 .. Len(recvLog) :
                 recvLog[n].failed /\ recvLog[n].batch < b})

\* C4: the tests run in consecutive batches of width 5, and a task of a batch
\* is launched only after every task of the earlier batches has reported its
\* outcome exactly once.
C4_BatchGate ==
  \A k \in DOMAIN wk :
    /\ Reported(k) <= 1
    /\ Launched(k) =>
         /\ wk[k].batch = (k - 1) \div 5
         /\ \A j \in DOMAIN wk :
              (Launched(j) /\ wk[j].batch < wk[k].batch) => Reported(j) = 1

C4_Witness ==
  \E k \in DOMAIN wk : wk[k].pc = "fetch" /\ wk[k].batch = 1

\* C5: within a batch every task is launched before the dispatcher consumes a
\* completion message of that batch.
C5_LaunchedBeforeConsumed ==
  \A n \in 1 .. Len(recvLog) :
    \A j \in DOMAIN wk :
      (j - 1) \div 5 = recvLog[n].batch => Launched(j)

\* C6: at most 5 per-test pipelines are launched and not yet finished.
C6_AtMostFiveInFlight ==
  Cardinality({k \in DOMAIN wk : Alive(k)}) <= 5

C6_Witness ==
  Cardinality({k \in DOMAIN wk : Alive(k)}) = 5

\* C7: once the error counter has reached 5, no test of a later batch is
\* launched, fetched or stored, and the run returns "too many errors".
C7_StopsAfterBudget ==
  /\ \A k \in DOMAIN wk :
       Launched(k) => FailuresBefore(wk[k].batch) < 5
  /\ (dpc = "done" /\ errCount >= 5) => ret.kind = "too many errors"

\* C9: saveRecipientsToS3Async returns "too many errors" if and only if at
\* least 5 per-test pipelines failed; with 0 to 4 failures it returns nil.
C9_TooManyIffFiveFailed ==
  dpc = "done" =>
    LET failed == Cardinality({k \in DOMAIN wk : wk[k].failed}) IN
    /\ ret.kind = "too many errors" <=> failed >= 5
    /\ failed < 5 => IsNil(ret)

C9_Witness ==
  /\ dpc = "done"
  /\ ret.kind = "too many errors"
  /\ Cardinality({k \in DOMAIN wk : wk[k].failed}) = 5

\* C10: every launched task sends exactly one message on every path, and the
\* dispatcher has received exactly one message from every task of the earlier
\* batches.
C10_ExactlyOneMessage ==
  \A k \in DOMAIN wk :
    /\ wk[k].sent <= 1
    /\ Reported(k) = wk[k].sent
    /\ wk[k].pc \in {"deferred", "exit"} => wk[k].sent = 1
    /\ wk[k].pc \in {"idle", "fetch", "store", "send"} => wk[k].sent = 0
    /\ (Launched(k) /\ wk[k].batch < batch) => Reported(k) = 1

C10_Witness ==
  /\ batch = 1
  /\ \E k \in DOMAIN wk : wk[k].pc = "exit" /\ wk[k].failed
  /\ \E k \in DOMAIN wk : wk[k].pc = "exit" /\ ~wk[k].failed

\* number of failure messages the dispatcher has received
FailuresReceived ==
  Cardinality({n \in 1 .. Len(recvLog) : recvLog[n].failed})

\* C11: the error counter always equals the number of failure messages
\* received so far; it never decreases, and it changes only in a step in
\* which the dispatcher receives a message, never in a step of a worker.
C11_CounterSingleOwner ==
  /\ [](errCount = FailuresReceived)
  /\ [][/\ errCount' >= errCount
        /\ errCount' # errCount =>
             /\ dpc = "recv"
             /\ Len(recvLog') = Len(recvLog) + 1
             /\ \A k \in DOMAIN wk :
                  wk'[k].pc # wk[k].pc => wk[k].pc = "send"]_vars

C11_Witness ==
  /\ batch = 1
  /\ errCount = 3
  /\ \E k \in DOMAIN wk : wk[k].pc = "store"

\* C12: a failed pipeline is counted once and halts nothing: once a batch is
\* over every test of it has reported, the tests that did not fail have
\* their object stored, and at the return every test of the list has run.
C12_FailureHaltsNothing ==
  /\ errCount = Cardinality({k \in DOMAIN wk : wk[k].failed /\ wk[k].sent > 0})
  /\ \A k \in DOMAIN wk :
       ((k - 1) \div 5 < batch \/ dpc = "done") =>
         /\ wk[k].pc = "exit"
         /\ Reported(k) = 1
         /\ \E n \in 1 .. Len(reqs) : reqs[n].ep = <<recipientsURLPath, wk[k].id>>
         /\ ~wk[k].failed => RecipientsFilename(wk[k].id) \in DOMAIN s3

C12_Witness ==
  /\ stCount = 6
  /\ dpc = "done"
  /\ errCount = 2
  /\ wk[1].failed
  /\ ~wk[2].failed
  /\ wk[3].failed
  /\ ~wk[6].failed
  /\ RecipientsFilename(wk[6].id) \in DOMAIN s3

\* the step is the successful store of the pipeline that owns the key
OwnStore(key) ==
  \E k \in DOMAIN wk :
    /\ key = RecipientsFilename(wk[k].id)
    /\ wk[k].pc = "store"
    /\ wk'[k].pc = "send"
    /\ ~wk'[k].failed

\* C13: the fan-out is not transactional. No object is ever removed; an
\* object changes or appears only by the successful store of the pipeline of
\* its own test, so the campaigns, groups and security-tests objects and the
\* objects written in this run stay as they are to the end, also when the run
\* ends with "too many errors"; a failed pipeline leaves its key as it was.
C13_NoRollback ==
  /\ [](\A k \in DOMAIN wk :
          LET key == RecipientsFilename(wk[k].id) IN
          wk[k].pc \in {"send", "deferred", "exit"} =>
            IF wk[k].failed
              THEN key \in DOMAIN s3 => s3[key] = StaleObject
              ELSE key \in DOMAIN s3 /\ s3[key] # StaleObject)
  /\ [][/\ \A key \in DOMAIN s3 :
             /\ key \in DOMAIN s3'
             /\ s3'[key] # s3[key] => s3[key] = StaleObject /\ OwnStore(key)
        /\ \A key \in DOMAIN s3' \ DOMAIN s3 : OwnStore(key)]_vars

C13_Witness ==
  /\ dpc = "done"
  /\ ret.kind = "too many errors"
  /\ \E k \in DOMAIN wk :
       /\ wk[k].failed
       /\ RecipientsFilename(wk[k].id) \in DOMAIN s3
       /\ s3[RecipientsFilename(wk[k].id)] = StaleObject
  /\ \E k \in DOMAIN wk :
       /\ ~wk[k].failed
       /\ RecipientsFilename(wk[k].id) \in DOMAIN s3
       /\ s3[RecipientsFilename(wk[k].id)] # StaleObject
  /\ FixedFilename(campaignsFilename) \in DOMAIN s3

----------------------------------------------------------------------------
(* Properties of the runs where every pipeline fails, under SpecAllFail *)

\* C8: when every pipeline fails, at most ceil(K/5)*5 tasks are launched, and
\* the tasks launched and the final error count never exceed 5 + 5 = 10.
C8_OvershootBounded ==
  LET launched == Cardinality({k \in DOMAIN wk : Launched(k)}) IN
  /\ launched <= ((stCount + 4) \div 5) * 5
  /\ launched <= 10
  /\ errCount <= 10

----------------------------------------------------------------------------
(* Properties of handler, checked under SpecHandler and SpecRerun *)

\* the stage of handler an endpoint or a stored object belongs to
StageRank(name) ==
  IF name \in {campaignsURLPath, campaignsFilename} THEN 1
  ELSE IF name \in {groupsURLPath, groupsFilename} THEN 2
  ELSE IF name \in {securityTestURLPath, phishingTestsFilename} THEN 3
  ELSE 4

\* the stage whose failure an error returned by handler reports; 0 for a
\* failure of config.init
FailedStage(err) ==
  IF err.kind = "required value missing" THEN 0
  ELSE IF \E st \in DOMAIN Stages : err.kind \in {Stages[st].fetch, Stages[st].save}
    THEN StageRank(Stages[CHOOSE st \in DOMAIN Stages :
                            err.kind \in {Stages[st].fetch, Stages[st].save}].file)
  ELSE 4

C14_Order ==
  /\ \A m, n \in 1 .. Len(reqs) :
       m < n => StageRank(reqs[m].ep[1]) <= StageRank(reqs[n].ep[1])
  /\ \A key \in DOMAIN s3 :
       /\ \E n \in 1 .. Len(reqs) :
            StageRank(reqs[n].ep[1]) = StageRank(key[1])
            \/ (key[2] = 0 /\ StageRank(key[1]) = 4)
       /\ \A st \in DOMAIN Stages :
            StageRank(Stages[st].file) < StageRank(key[1])
              => FixedFilename(Stages[st].file) \in DOMAIN s3
  /\ \A n \in 1 .. Len(reqs), st \in DOMAIN Stages :
       StageRank(Stages[st].file) < StageRank(reqs[n].ep[1])
         => FixedFilename(Stages[st].file) \in DOMAIN s3
  /\ hpc = "returned" =>
       /\ \A n \in 1 .. Len(reqs) :
            IsNil(hret) \/ StageRank(reqs[n].ep[1]) <= FailedStage(hret)
       /\ \A key \in DOMAIN s3 :
            IsNil(hret) \/ StageRank(key[1]) <= FailedStage(hret)

C14_Abort ==
  /\ (hpc \in DOMAIN Stages \cup {"init"} /\ ~IsNil(hret')) => hpc' = "returned"
  /\ hpc = "returned" => (reqs' = reqs /\ s3' = s3)

\* C14: handler runs campaigns, groups, security tests and the fan-out in
\* this order, each stage fetching all its pages before it stores and storing
\* before the next stage starts; the step in which a fetch or a store of the
\* first three stages fails is the return of handler with an error, and no
\* request and no write of a later stage is ever made in that run.
C14_StagesInOrder == [](C14_Order) /\ [][C14_Abort]_vars

C14_Witness ==
  /\ hpc = "returned"
  /\ ~IsNil(hret)
  /\ FailedStage(hret) = StageRank(groupsFilename)
  /\ FixedFilename(campaignsFilename) \in DOMAIN s3
  /\ \E n \in 1 .. Len(reqs) : reqs[n].ep[1] = groupsURLPath

\* the security test a recipients object belongs to, and the endpoint a
\* stored object was collected from
EndpointOf(key) ==
  IF key[1] = campaignsFilename THEN Stages.campaigns.ep
  ELSE IF key[1] = groupsFilename THEN Stages.groups.ep
  ELSE IF key[1] = phishingTestsFilename THEN Stages.tests.ep
  ELSE <<recipientsURLPath, key[2]>>

\* C15: line n of every stored object (campaigns, groups, security tests,
\* the recipients of a test) is the serialization of record n of pages
\* 1, 2, ... of its endpoint concatenated in ascending order, and the object
\* has no other line.
C15_LinesFollowPages ==
  \A key \in DOMAIN s3 :
    LET recs == ConcatPages(EndpointOf(key), FirstShort(EndpointOf(key)))
        w == Len(JsonLine("")) IN
    /\ Len(s3[key]) = w * Len(recs)
    /\ \A n \in 1 .. Len(recs) :
         SubSeq(s3[key], w * (n - 1) + 1, w * n)
           = JsonLine(jsonMarshal(recs[n]).b)

C15_Witness ==
  /\ FixedFilename(campaignsFilename) \in DOMAIN s3
  /\ Len(s3[FixedFilename(campaignsFilename)]) > countPerPage
  /\ \E key \in DOMAIN s3 :
       /\ key[1] = s3RecipientsFilenamePrefix
       /\ Len(s3[key]) > countPerPage

\* C16: a second run of handler against the same remote data, in which the
\* same calls fail as in the first, leaves every object of the bucket as the
\* first run left it.
C16_RerunLeavesStore ==
  (run > 1 /\ hpc = "returned" /\ Outcome = prev.outcome) => s3 = prev.s3

C16_Witness ==
  /\ run > 1
  /\ hpc = "returned"
  /\ Outcome = prev.outcome
  /\ \E k \in DOMAIN wk : wk[k].failed
  /\ \E k \in DOMAIN wk :
       /\ RecipientsFilename(wk[k].id) \in DOMAIN s3
       /\ Len(s3[RecipientsFilename(wk[k].id)]) > countPerPage

----------------------------------------------------------------------------
(* Properties of marshalJsonLines and of the flatteners, checked under
   SpecPure *)

\* every row of a list has a JSON serialization
Serializable(rows) == \A n \in 1 .. Len(rows) : IsNil(jsonMarshal(rows[n]).err)

\* C17: marshalJsonLines on a []interface{} of n serializable rows returns,
\* without error, n lines and nothing else: the serialization of row n
\* followed by one newline, in the order of the input, a scalar as the bare
\* JSON value; the list of 1 and 2 gives "1\n2\n".
C17_OneLinePerRow ==
  (op = "marshalJsonLines" /\ arg.kind = "list" /\ Serializable(arg.rows)) =>
    /\ IsNil(res.err)
    /\ Len(res.b) = Len(arg.rows) + Len(arg.rows)
    /\ \A n \in 1 .. Len(arg.rows) :
         /\ res.b[n + n - 1] = jsonMarshal(arg.rows[n]).b
         /\ res.b[n + n] = "\n"
    /\ arg.rows = << <<"int", 1>>, <<"int", 2>> >>
         => res.b = <<"1", "\n", "2", "\n">>

C17_Witness ==
  /\ op = "marshalJsonLines"
  /\ arg = InterfaceList(<< <<"int", 1>>, <<"int", 2>> >>)
  /\ res.b = <<"1", "\n", "2", "\n">>

\* C18: marshalJsonLines on the empty list returns no byte and no error; on
\* nil and on a single struct it returns an error and no byte.
C18_EmptyAndNonSequence ==
  op = "marshalJsonLines" =>
    /\ arg = InterfaceList(<<>>) => (IsNil(res.err) /\ res.b = <<>>)
    /\ arg.kind \in {"nil", "struct"} => (~IsNil(res.err) /\ res.b = <<>>)

C18_Witness ==
  /\ op = "marshalJsonLines"
  /\ arg.kind = "struct"
  /\ ~IsNil(res.err)
  /\ res.b = <<>>

RECURSIVE JoinNames(_, _)
\* the Name values of a list joined with a separator
JoinNames(list, sep) ==
  IF list = <<>> THEN ""
  ELSE IF Len(list) = 1 THEN list[1].name
  ELSE JoinNames(SubSeq(list, 1, Len(list) - 1), sep) \o sep
         \o list[Len(list)].name

\* C19: in every flattened security test all_groups is the names of Groups
\* joined with "," and all_categories the names of Categories joined with
\* ",", in the original order.
C19_CommaJoined ==
  (op = "flattenTests" /\ IsNil(res.err)) =>
    \A n \in 1 .. Len(arg.rows) :
      /\ res.flat[n].all_groups = JoinNames(arg.rows[n].groups, ",")
      /\ res.flat[n].all_categories = JoinNames(arg.rows[n].categories, ",")

\* the keys of the nested objects and lists of the API types
NestedKeys == {"groups", "categories", "template", "landing-page", "user"}

\* C20: a flattened security test has the ID and Name of Template and of
\* LandingPage as template_id, template_name, landing_page_id and
\* landing_page_name, a flattened recipient has the fields of User and of
\* Template under the user_ and template_ prefixes, and every other scalar
\* field has the value it has in the input; the fixture gives template_id
\* 11428, template_name "CNN Breaking News", landing_page_id 1842 and
\* landing_page_name "SEI Landing Page".
C20_PromotesAndCopies ==
  /\ (op = "flattenTests" /\ IsNil(res.err)) =>
       \A n \in 1 .. Len(arg.rows) :
         LET t == arg.rows[n]
             f == res.flat[n] IN
         /\ f.template_id = t.template.id
         /\ f.template_name = t.template.name
         /\ f.landing_page_id = t["landing-page"].id
         /\ f.landing_page_name = t["landing-page"].name
         /\ \A k \in DOMAIN t \ NestedKeys : f[k] = t[k]
         /\ t = exampleSecurityTest =>
              \A k \in {"template_id", "template_name", "landing_page_id",
                        "landing_page_name"} :
                f[k] = exampleFlatSecurityTest[k]
  /\ (op = "flattenRecipients" /\ IsNil(res.err)) =>
       \A n \in 1 .. Len(arg.rows) :
         LET r == arg.rows[n]
             f == res.flat[n] IN
         /\ f.user_id = r.user.id
         /\ f.user_active_directory_guid = r.user.active_directory_guid
         /\ f.user_first_name = r.user.first_name
         /\ f.user_last_name = r.user.last_name
         /\ f.user_email = r.user.email
         /\ f.template_id = r.template.id
         /\ f.template_name = r.template.name
         /\ \A k \in DOMAIN r \ NestedKeys : f[k] = r[k]

C20_Witness ==
  /\ op = "flattenTests"
  /\ IsNil(res.err)
  /\ arg.rows[1] = exampleSecurityTest
  /\ res.flat[1].template_name = "CNN Breaking News"
  /\ res.flat[1].landing_page_name = "SEI Landing Page"
  /\ res.flat[1].campaign_id = exampleSecurityTest.campaign_id

RECURSIVE JoinWith(_, _)
\* strings joined with a separator
JoinWith(strs, sep) ==
  IF strs = <<>> THEN ""
  ELSE IF Len(strs) = 1 THEN strs[1]
  ELSE JoinWith(SubSeq(strs, 1, Len(strs) - 1), sep) \o sep \o strs[Len(strs)]

----------------------------------------------------------------------------
(* Termination of a collector, checked under SpecCollect *)

\* the response fails the page request: no response, an error status, or a
\* body that is not the JSON array
FailsRequest(resp) ==
  \/ resp.kind = "transport"
  \/ resp.code >= 300
  \/ resp.body # "array"

\* C22: a collector ends exactly by a page request that fails or by a page
\* of fewer than 500 records; as long as every page comes back with 500
\* records it goes on to the next page number, whatever that number is.
C22_OnlyShortPageEnds ==
  (dpc = "off" /\ hpc = "off" /\ op = "off") =>
    LET cs == col[0] IN
    /\ cs.st \in {"running", "ok", "err"}
    /\ cs.n = Len(reqs)
    /\ \A k \in 1 .. Len(reqs) : reqs[k].page = k
    /\ cs.st = "running" <=>
         /\ cs.i = Len(reqs) + 1
         /\ \A k \in 1 .. Len(reqs) : remote[cs.ep][k] >= 500
         /\ Len(reqs) > 0 => ~FailsRequest(cs.resp)
    /\ cs.st = "ok" =>
         /\ remote[cs.ep][Len(reqs)] < 500
         /\ ~FailsRequest(cs.resp)
    /\ cs.st = "err" => FailsRequest(cs.resp)

C22_Witness ==
  /\ dpc = "off"
  /\ hpc = "off"
  /\ op = "off"
  /\ col[0].st = "running"
  /\ Len(reqs) = MaxPages
  /\ col[0].i = MaxPages + 1
  /\ Len(col[0].all) = MaxPages * countPerPage

----------------------------------------------------------------------------
(* More properties of saveRecipientsToS3Async, checked under Spec *)

\* the steps of a task, in the order of saveRecipientsForSecTest
TaskSteps ==
  {<<"idle", "fetch">>, <<"fetch", "store">>, <<"fetch", "send">>,
   <<"store", "send">>, <<"send", "deferred">>, <<"deferred", "exit">>}

C23_AllFinished ==
  dpc \in {"close", "done"} =>
    \A k \in DOMAIN wk :
      Launched(k) =>
        /\ wk[k].pc = "exit"
        /\ Reported(k) = 1
        /\ col[k].st = "idle"
        /\ ~wk[k].failed =>
             /\ RecipientsFilename(wk[k].id) \in DOMAIN s3
             /\ s3[RecipientsFilename(wk[k].id)] # StaleObject

C23_OwnSteps ==
  \A k \in DOMAIN wk :
    wk'[k].pc # wk[k].pc => <<wk[k].pc, wk'[k].pc>> \in TaskSteps

\* C23: no task is cancelled. A task moves only by the steps of its own
\* pipeline, and when saveRecipientsToS3Async closes the channel and
\* returns, with or without the "too many errors" result, every launched
\* task has stored its object or failed, has delivered its one message and
\* has ended.
C23_NoCancellation == [](C23_AllFinished) /\ [][C23_OwnSteps]_vars

C23_Witness ==
  /\ dpc = "done"
  /\ ret.kind = "too many errors"
  /\ stCount > maxErrorsAllowed
  /\ \A k \in DOMAIN wk : wk[k].pc = "exit" /\ Reported(k) = 1
  /\ \E k \in DOMAIN wk : ~wk[k].failed

----------------------------------------------------------------------------
(* Keys, configuration and the cap, checked under SpecHandler *)

FixedKeys ==
  {FixedFilename(campaignsFilename), FixedFilename(groupsFilename),
   FixedFilename(phishingTestsFilename)}

\* the test IDs of the launched pipelines
ProcessedIDs == {wk[k].id : k \in {j \in DOMAIN wk : Launched(j)}}

C24_Keys ==
  /\ \A key \in DOMAIN s3 :
       \/ key \in FixedKeys
       \/ \E k \in DOMAIN wk :
            /\ Launched(k)
            /\ wk[k].id = PstID(secTests[k])
            /\ key = RecipientsFilename(wk[k].id)
            /\ KeyText(key) = "recipients/knowbe4_recipients_"
                                \o ToString(wk[k].id) \o ".jsonl"
  /\ \A a, b \in ProcessedIDs \cup {secTestID} :
       /\ KeyText(RecipientsFilename(a)) = KeyText(RecipientsFilename(b))
            => a = b
       /\ \A key \in FixedKeys :
            KeyText(RecipientsFilename(a)) # KeyText(key)
  /\ \A j, k \in DOMAIN wk :
       (Launched(j) /\ Launched(k) /\ wk[j].id # wk[k].id)
         => KeyText(RecipientsFilename(wk[j].id))
              # KeyText(RecipientsFilename(wk[k].id))

C24_Writes ==
  \A key \in DOMAIN s3' :
    (key \notin DOMAIN s3 \/ s3'[key] # s3[key]) =>
      \/ hpc \in DOMAIN Stages /\ key = FixedFilename(Stages[hpc].file)
      \/ \E k \in DOMAIN wk :
           /\ wk[k].pc = "store"
           /\ wk'[k].pc = "send"
           /\ key = RecipientsFilename(wk[k].id)
           /\ \A j \in DOMAIN wk \ {k} : wk'[j] = wk[j]

\* C24: every object of the bucket is under the campaigns, the groups or the
\* security tests key, or under the recipients prefix followed by the decimal
\* ID of a processed test and ".jsonl"; every write is the write of its stage
\* or of the pipeline of its test; the keys of distinct test IDs have
\* distinct texts, none of which is the text of a fixed key.
C24_FixedKeys == [](C24_Keys) /\ [][C24_Writes]_vars

C24_Witness ==
  /\ hpc = "returned"
  /\ FixedKeys \subseteq DOMAIN s3
  /\ \E j, k \in DOMAIN wk :
       /\ wk[j].id # wk[k].id
       /\ RecipientsFilename(wk[j].id) \in DOMAIN s3
       /\ RecipientsFilename(wk[k].id) \in DOMAIN s3

\* the names of the required settings
RequiredNames == {RequiredSettings[n] : n \in 1 .. Len(RequiredSettings)}

\* C25: handler makes a request or a write only with the API base URL, the
\* auth token and the bucket name all set, from the invocation config or the
\* environment; when one is missing from both, handler has returned the
\* configuration error that names it, and there is no request and no write.
C25_ConfigFirst ==
  /\ (reqs # <<>> \/ s3 # <<>> \/ hpc \notin {"init", "returned"})
       => config.given = RequiredNames
  /\ (hpc = "returned" /\ config.given # RequiredNames) =>
       /\ hret.kind = "required value missing"
       /\ RequiredSettings[hret.code] \notin config.given
       /\ reqs = <<>>
       /\ s3 = <<>>
  /\ hret.kind = "required value missing" =>
       /\ hpc = "returned"
       /\ reqs = <<>>
       /\ s3 = <<>>

C25_Witness ==
  /\ hpc = "returned"
  /\ hret.kind = "required value missing"
  /\ RequiredSettings[hret.code] = EnvAWSS3Bucket
  /\ config.given = {EnvAPIBaseURL}
  /\ reqs = <<>>
  /\ s3 = <<>>

\* the security tests the API returns in a run of handler
ReturnedTests ==
  ConcatPages(Stages.tests.ep, FirstShort(Stages.tests.ep))

\* C26: whatever the cap and the number of tests, handler does not fail at
\* the cap, and saveRecipientsToS3Async is called with a prefix of the tests
\* the API returned: all of them when the cap is 0, the first min(cap, N)
\* otherwise.
C26_CappedPrefix ==
  /\ hpc # "panic"
  /\ dpc # "off" =>
       LET N == Len(ReturnedTests)
           C == config.MaxFileCount
           n == IF C = 0 \/ C > N THEN N ELSE C IN
       /\ secTests = SubSeq(ReturnedTests, 1, n)
       /\ \A k \in DOMAIN wk :
            Launched(k) => \E m \in 1 .. N : wk[k].id = PstID(ReturnedTests[m])

----------------------------------------------------------------------------
(* The counts logged by saveRecipientsToS3Async, checked under Spec *)

\* the recipients objects written since saveRecipientsToS3Async was entered
WrittenKeys ==
  {key \in DOMAIN s3 :
     key[1] = s3RecipientsFilenamePrefix /\ s3[key] # StaleObject}

\* C27: when saveRecipientsToS3Async returns, the number of errors it has
\* logged is the number of pipelines that failed, the number of saved files
\* it has logged is the number of recipients objects written in the call,
\* and the two add up to the number of tests it was given.
C27_LoggedCounts ==
  dpc = "done" =>
    /\ logged[2] = Cardinality({k \in DOMAIN wk : wk[k].failed})
    /\ logged[1] = Cardinality(WrittenKeys)
    /\ logged[1] + logged[2] = Len(secTests)

C27_Witness ==
  /\ dpc = "done"
  /\ Len(secTests) = MaxTests
  /\ logged[2] = 2
  /\ logged[1] = MaxTests - 2
  /\ Cardinality(WrittenKeys) = MaxTests - 2

----------------------------------------------------------------------------
(* The error of callAPI, checked under SpecCollect *)

\* C28: the error callAPI makes of a response with an error status carries
\* the URL of the request, the status code and the content of the body of
\* the response.
C28_ErrorCarriesBody ==
  (dpc = "off" /\ hpc = "off" /\ op = "off") =>
    LET cs == col[0] IN
    (cs.st = "err" /\ cs.err.kind = "status") =>
      /\ cs.err.text.url = APIURL(cs.ep)
      /\ cs.err.text.code = cs.resp.code
      /\ cs.err.text.body = cs.resp.body

----------------------------------------------------------------------------
(* C29 *)

\* a ConvertToOtherType error ended a getAll... call of this run
ConversionFailed ==
  \E p \in DOMAIN col : col[p].err.kind = ConvertError.kind

\* C29: when ConvertToOtherType fails for a record, of the security tests or
\* of the recipients of a test, handler returns an error: the failure is not
\* absorbed into the error budget of the fan-out
C29_ConversionFatal ==
  (hpc = "returned" /\ ConversionFailed) => ~IsNil(hret)

----------------------------------------------------------------------------
(* C30 *)

\* C30: flattenTests and flattenRecipients are one to one and keep the order:
\* when a list of n records flattens without error the output has n elements
\* and element i is what flattening record i on its own gives, whatever the
\* other records of the list are.
C30_OneToOneInOrder ==
  /\ (op = "flattenTests" /\ IsNil(res.err)) =>
       /\ Len(res.flat) = Len(arg.rows)
       /\ \A n \in 1 .. Len(arg.rows) :
            res.flat[n] = flattenTests(<<arg.rows[n]>>).flat[1]
  /\ (op = "flattenRecipients" /\ IsNil(res.err)) =>
       /\ Len(res.flat) = Len(arg.rows)
       /\ \A n \in 1 .. Len(arg.rows) :
            res.flat[n] = flattenRecipients(<<arg.rows[n]>>).flat[1]

C30_Witness ==
  /\ op = "flattenTests"
  /\ IsNil(res.err)
  /\ Len(arg.rows) = 2
  /\ arg.rows[1] # arg.rows[2]
  /\ Len(res.flat) = 2
  /\ res.flat[1] # res.flat[2]
  /\ res.flat[1].template_id = arg.rows[1].template.id
  /\ res.flat[2].template_id = arg.rows[2].template.id
  /\ arg.rows[1].template.id # arg.rows[2].template.id

----------------------------------------------------------------------------
(* C31 *)

\* C31: recipients are never merged across tests. Whatever the interleaving
\* of the pipelines, the records a pipeline holds are records of its own test,
\* and the object a pipeline has stored under the key of its test is the
\* lines of the pages of that test, in page order, and nothing else.
C31_NeverMerged ==
  \A k \in DOMAIN wk :
    LET ep == <<recipientsURLPath, wk[k].id>> IN
    /\ \A n \in 1 .. Len(col[k].all) : col[k].all[n][2] = wk[k].id
    /\ \A n \in 1 .. Len(col[k].ret) : col[k].ret[n][2] = wk[k].id
    /\ (wk[k].pc \in {"send", "deferred", "exit"} /\ ~wk[k].failed) =>
         /\ RecipientsFilename(wk[k].id) \in DOMAIN s3
         /\ s3[RecipientsFilename(wk[k].id)] =
              marshalJsonLines(InterfaceList(
                ConcatPages(ep, FirstShort(ep)))).b

C31_Witness ==
  /\ stCount >= 3
  /\ wk[1].pc = "deferred"
  /\ ~wk[1].failed
  /\ wk[2].pc = "deferred"
  /\ ~wk[2].failed
  /\ Len(s3[RecipientsFilename(wk[2].id)]) > countPerPage
  /\ Len(s3[RecipientsFilename(wk[1].id)]) < countPerPage
  /\ wk[3].pc = "fetch"
  /\ col[3].st = "running"

----------------------------------------------------------------------------
(* C32 *)

\* the tasks launched so far are those of the first stIndex + 1 tests
C32_Prefix ==
  dpc # "off" =>
    /\ \A k \in DOMAIN wk :
         /\ Launched(k) <=> k <= stIndex + 1
         /\ Launched(k) => wk[k].id = PstID(secTests[k])
    /\ dpc = "done" =>
         /\ \A k \in 1 .. Len(secTests) : Launched(k)
         /\ DOMAIN wk = 1 .. Len(secTests)
         /\ Len(secTests) = 0 => IsNil(ret) /\ reqs = <<>>

\* a step launches at most one task, the one of the next test of the list,
\* and a launched task is never launched again
C32_OneByOne ==
  \A k \in DOMAIN wk :
    /\ (wk[k].pc = "idle" /\ wk'[k].pc # "idle") =>
         /\ k = stIndex + 2
         /\ stIndex' = stIndex + 1
         /\ \A j \in 1 .. k - 1 : wk[j].pc # "idle"
         /\ \A j \in DOMAIN wk \ {k} : wk'[j] = wk[j]
    /\ wk[k].pc # "idle" => wk'[k].pc # "idle" /\ wk'[k].id = wk[k].id

\* C32: saveRecipientsToS3Async launches a task for every test of its list
\* exactly once and in list order; no index is skipped or launched twice
\* where one batch ends and the next begins, an empty list launches nothing
\* and returns nil, and a list of exactly five tests launches five tasks.
C32_EveryTestOnce == [](C32_Prefix) /\ [][C32_OneByOne]_vars

C32_Witness ==
  /\ dpc = "done"
  /\ Len(secTests) = workingGroupCount
  /\ batch = 1
  /\ \A k \in 1 .. workingGroupCount : wk[k].pc = "exit" /\ wk[k].batch = 0
  /\ stIndex = workingGroupCount

----------------------------------------------------------------------------
(* C33 *)

\* C33: when every request and every upload returns and every collection
\* meets a short page, saveRecipientsToS3Async returns: the dispatcher does
\* not stay blocked in a receive or in wg.Wait, and no goroutine stays blocked
\* in its send on the unbuffered channel.
C33_EventuallyReturns ==
  /\ <>(dpc = "done")
  /\ (dpc = "recv") ~> (dpc # "recv")
  /\ (dpc = "wait") ~> (dpc # "wait")
  /\ \A k \in 1 .. MaxTests :
       (k \in DOMAIN wk /\ wk[k].pc = "send")
         ~> (k \in DOMAIN wk /\ wk[k].pc = "exit")

C33_Witness ==
  /\ dpc = "done"
  /\ c = "closed"
  /\ stCount = MaxTests
  /\ Len(recvLog) = MaxTests
  /\ \A k \in DOMAIN wk : wk[k].pc = "exit" /\ wk[k].sent = 1
  /\ errCount = 1
  /\ IsNil(ret)

----------------------------------------------------------------------------
(* C34 *)

\* once the channel is closed every launched goroutine has sent its message
\* and has ended, so none is in a send on the closed channel
C34_ClosedAfterAll ==
  c = "closed" =>
    \A k \in DOMAIN wk :
      /\ wk[k].pc # "send"
      /\ Launched(k) => wk[k].pc = "exit" /\ wk[k].sent = 1 /\ Reported(k) = 1
      /\ ~Launched(k) => k > stCount

\* close(c) is a step of the dispatcher taken when no goroutine is alive, and
\* the channel is never opened again
C34_CloseStep ==
  /\ (c = "open" /\ c' = "closed") =>
       /\ dpc = "close"
       /\ \A k \in DOMAIN wk : ~Alive(k) /\ wk'[k] = wk[k]
       /\ wg[batch] = 0
  /\ c = "closed" => c' = "closed"

\* C34: the completion channel is closed only after every launched worker
\* has sent its message and finished; no worker sends on the closed channel
\* and none is alive when saveRecipientsToS3Async closes it.
C34_CloseAfterWorkers == [](C34_ClosedAfterAll) /\ [][C34_CloseStep]_vars

C34_Witness ==
  /\ c = "closed"
  /\ stCount = 2
  /\ wk[1].failed
  /\ ~wk[2].failed
  /\ wk[1].sent = 1
  /\ wk[2].sent = 1
  /\ wk[1].pc = "exit"
  /\ wk[2].pc = "exit"

----------------------------------------------------------------------------
(* C35 *)

\* marshalJsonLines on a list with a row that has no serialization returns
\* an error and no byte, whatever rows come before it
C35_NoPartialOutput ==
  (op = "marshalJsonLines" /\ arg.kind = "list" /\ ~Serializable(arg.rows)) =>
    /\ ~IsNil(res.err)
    /\ res.b = <<>>

\* saveToS3 on such a list returns the marshalling error, whether or not an
\* upload would have succeeded, and leaves the bucket as it was
C35_NoUpload ==
  (op = "input" /\ op' = "saveToS3" /\ arg.kind = "list"
     /\ ~Serializable(arg.rows)) =>
    /\ res'.err.kind = "marshal"
    /\ s3' = s3

\* C35: encoding is all or nothing for the store. When the serialization of
\* a record of a list fails, marshalJsonLines returns an error and no partial
\* output, saveToS3 returns an error without uploading, and the object stored
\* under the key stays as it was.
C35_AllOrNothing == [](C35_NoPartialOutput) /\ [][C35_NoUpload]_vars

C35_Witness ==
  /\ op = "saveToS3"
  /\ arg.kind = "list"
  /\ Len(arg.rows) = 2
  /\ arg.rows[1] = <<"int", 1>>
  /\ arg.rows[2] = <<"chan">>
  /\ res.err.kind = "marshal"
  /\ FixedFilename(groupsFilename) \in DOMAIN s3
  /\ s3[FixedFilename(groupsFilename)] = StaleObject

====
